---------------------------- MODULE Spec2Model ----------------------------
(***************************************************************************)
(* Marionette firmware: the Fetch command dispatch (GPIO and DAC modules)  *)
(* and the structured message protocol written to the shared output        *)
(* channel under the binary semaphore mshell_io_sem.                       *)
(*                                                                         *)
(* A C string is a sequence of one-character strings; an output text is a  *)
(* sequence of atoms, where "\r" and "\n" are always atoms of their own.   *)
(* Every C function is an operator giving the sequence of primitive steps  *)
(* (semaphore wait/signal, chprintf, hardware call, flag access) the       *)
(* function executes, in program order, with its return value; a thread    *)
(* executes the steps of its call one at a time, interleaved with the      *)
(* other threads.                                                          *)
(***************************************************************************)
EXTENDS Integers, Sequences, FiniteSets, TLC

VARIABLES
    mshell_io_sem,  \* TRUE when the binary semaphore is taken
    inCS,           \* threads between chBSemWait and chBSemSignal
    dac_init_flag,  \* the static flag of fetch_dac_init
    chan,           \* chunks written to the output channel by the commands in progress
    todo,           \* per thread: the steps of its current call still to execute
    cmd,            \* per thread: the command (or direct emission) being executed
    result,         \* per thread: the handler's return value of the current/last command
    ncmd,           \* per thread: commands started so far
    ncall,          \* per thread: chprintf-writing calls started in the current command
    rv,             \* per thread: the value palReadPad returned
    hwlog,          \* per thread: hardware calls made during the current dispatch
    debug_build     \* whether DBG_MSG/DBG_VMSG are compiled in (fixed at build time)

vars == <<mshell_io_sem, inCS, dac_init_flag, chan, todo, cmd, result, ncmd, ncall, rv,
          hwlog, debug_build>>

(***************************************************************************)
(* Bounds of the model.                                                    *)
(***************************************************************************)
\* Commands the shell thread is given one after the other.
MaxCmds == 2
\* Commands each of the concurrently running threads is given.
MaxConcCmds == 1
\* Calls each of the reporting threads makes.
MaxEmitCalls == 2

\* Two threads: a shell session and a second session or background task.
Threads == {1, 2}

(***************************************************************************)
(* C strings and characters.                                               *)
(***************************************************************************)
NULL == <<"(null)">>

CRLF == <<"\r", "\n">>

UpperChars == <<"A","B","C","D","E","F","G","H","I","J","K","L","M",
                "N","O","P","Q","R","S","T","U","V","W","X","Y","Z">>
LowerChars == <<"a","b","c","d","e","f","g","h","i","j","k","l","m",
                "n","o","p","q","r","s","t","u","v","w","x","y","z">>

tolower(c) ==
    IF \E i \in 1..Len(UpperChars) : UpperChars[i] = c
    THEN LowerChars[CHOOSE i \in 1..Len(UpperChars) : UpperChars[i] = c]
    ELSE c

\* The character at 1-based position i, case-folded; "" is the terminating NUL.
CharAt(s, i) == IF i <= Len(s) THEN tolower(s[i]) ELSE ""

\* strncasecmp(s1, s2, n): 0 when equal over at most n characters (stopping at
\* the terminating NUL), non-zero (1) otherwise.
strncasecmp(s1, s2, n) ==
    IF \A i \in 1..n :
          (i <= Len(s1) + 1 /\ i <= Len(s2) + 1) => CharAt(s1, i) = CharAt(s2, i)
    THEN 0 ELSE 1

strlen(s) == Len(s)

Max(a, b) == IF a >= b THEN a ELSE b
Min(a, b) == IF a <= b THEN a ELSE b

(***************************************************************************)
(* Number rendering of chprintf.                                           *)
(***************************************************************************)
DigitChars == <<"0","1","2","3","4","5","6","7","8","9","A","B","C","D","E","F">>

RECURSIVE Digits(_, _)
Digits(n, base) ==
    IF n < base THEN <<DigitChars[n + 1]>>
    ELSE Digits(n \div base, base) \o <<DigitChars[(n % base) + 1]>>

\* "%u": the unsigned decimal numeral.
FmtU(v) == Digits(v, 10)

\* "%d": the signed decimal numeral of an int.
FmtD(v) == IF v < 0 THEN <<"-">> \o Digits(0 - v, 10) ELSE Digits(v, 10)

\* A 32-bit word is kept as its two 16-bit halves; as an int it is read in
\* two's complement.
Word(hi, lo) == [hi |-> hi, lo |-> lo]
AsInt32(w) == IF w.hi >= 32768 THEN (w.hi - 65536) * 65536 + w.lo ELSE w.hi * 65536 + w.lo

RECURSIVE ZeroPad(_, _)
ZeroPad(s, width) == IF Len(s) >= width THEN s ELSE ZeroPad(<<"0">> \o s, width)

\* "%02X", "%04X", "%08X": upper-case hex, zero padded to the width.
FmtX(v, width) == ZeroPad(Digits(v, 16), width)

\* "%f": a double given in millionths, printed with six decimals.
FmtF(v) ==
    LET a == IF v < 0 THEN 0 - v ELSE v
    IN  (IF v < 0 THEN <<"-">> ELSE <<>>)
        \o Digits(a \div 1000000, 10) \o <<".">> \o ZeroPad(Digits(a % 1000000, 10), 6)

\* chvprintf: every conversion atom of the template is replaced by the
\* rendering of the next argument; everything else is copied.
IsConv(a) == a \in {"%d", "%s", "%u", "%x"}

RECURSIVE chvprintf(_, _)
chvprintf(fmt, args) ==
    IF fmt = <<>> THEN <<>>
    ELSE IF IsConv(Head(fmt)) /\ args # <<>>
         THEN Head(args) \o chvprintf(Tail(fmt), Tail(args))
         ELSE <<Head(fmt)>> \o chvprintf(Tail(fmt), IF IsConv(Head(fmt)) THEN <<>> ELSE args)

(***************************************************************************)
(* String literals of the sources.                                         *)
(***************************************************************************)
S_GET == <<"g","e","t">>
S_SET == <<"s","e","t">>
S_CLEAR == <<"c","l","e","a","r">>
S_CONFIG == <<"c","o","n","f","i","g">>
S_INPUT == <<"i","n","p","u","t">>
S_OUTPUT == <<"o","u","t","p","u","t">>
S_PULLUP == <<"p","u","l","l","u","p">>
S_PULLDOWN == <<"p","u","l","l","d","o","w","n">>
S_FLOATING == <<"f","l","o","a","t","i","n","g">>
S_ANALOG == <<"a","n","a","l","o","g">>
S_PIN == <<"p","i","n">>
S_PORT == <<"p","o","r","t">>
S_HELP == <<"h","e","l","p">>
S_WRITE == <<"w","r","i","t","e">>
S_RESET == <<"r","e","s","e","t">>

(***************************************************************************)
(* Primitive steps.                                                        *)
(***************************************************************************)
StWait      == [op |-> "chBSemWait",   arg |-> <<>>]
StSignal    == [op |-> "chBSemSignal", arg |-> <<>>]
StPut(text) == [op |-> "chprintf",     arg |-> text]
StPutRv(fmt) == [op |-> "chprintf_rv", arg |-> fmt]
StHw(call)  == [op |-> "hw",           arg |-> call]
StRead(pad) == [op |-> "palReadPad",   arg |-> pad]
StInitTest  == [op |-> "dac_init_test", arg |-> <<>>]
StInitSet   == [op |-> "dac_init_set",  arg |-> <<>>]
StReturn(b) == [op |-> "return",       arg |-> <<b>>]
StResult(v) == [op |-> "result",       arg |-> <<v>>]
StDone      == [op |-> "done",         arg |-> <<>>]

\* A function's behaviour: its steps and its return value.
Beh(steps, ret) == [ops |-> steps, ret |-> ret]

(***************************************************************************)
(* util_messages.c                                                         *)
(***************************************************************************)
needs_newline(str) ==
    IF str = NULL \/ str = <<>> THEN TRUE
    ELSE LET end == strlen(str) IN ~(str[end] = "\n" \/ str[end] = "\r")

\* The signal after the BEGIN: line forgotten.
util_message_begin_keeps_gate(chp) ==
    <<StWait, StPut(<<"BEGIN:">> \o CRLF)>>

util_message_begin(chp) ==
    <<StWait, StPut(<<"BEGIN:">> \o CRLF), StSignal>>

\* The two verdict lines exchanged.
util_message_end_swapped(chp, success) ==
    <<StWait>>
    \o (IF success THEN <<StPut(<<"END:ERROR">> \o CRLF)>>
                   ELSE <<StPut(<<"END:OK">> \o CRLF)>>)
    \o <<StSignal>>

util_message_end(chp, success) ==
    <<StWait>>
    \o (IF success THEN <<StPut(<<"END:OK">> \o CRLF)>>
                   ELSE <<StPut(<<"END:ERROR">> \o CRLF)>>)
    \o <<StSignal>>

\* The terminator decided on the rendered text.
FormatBody_on_rendered(prefix, fmt, args) ==
    <<StWait, StPut(prefix), StPut(chvprintf(fmt, args))>>
    \o (IF needs_newline(chvprintf(fmt, args)) THEN <<StPut(CRLF)>> ELSE <<>>)
    \o <<StSignal>>

\* The body shared by debug, info, warning, error and string: prefix, rendered
\* template, terminator decided on the template.
FormatBody(prefix, fmt, args) ==
    <<StWait, StPut(prefix), StPut(chvprintf(fmt, args))>>
    \o (IF needs_newline(fmt) THEN <<StPut(CRLF)>> ELSE <<>>)
    \o <<StSignal>>

util_message_debug(chp, file, line, func, fmt, args) ==
    IF fmt = NULL \/ file = NULL \/ func = NULL \/ chp = NULL THEN <<>>
    ELSE FormatBody(<<"?:">> \o file \o <<":">> \o FmtD(line) \o <<":">> \o func \o <<":">>,
                    fmt, args)

\* The tag written before the semaphore is taken.
util_message_info_tag_first(chp, fmt, args) ==
    IF chp = NULL \/ fmt = NULL THEN <<>>
    ELSE <<StPut(<<"#:">>), StWait, StPut(chvprintf(fmt, args))>>
         \o (IF needs_newline(fmt) THEN <<StPut(CRLF)>> ELSE <<>>)
         \o <<StSignal>>

util_message_info(chp, fmt, args) ==
    IF chp = NULL \/ fmt = NULL THEN <<>>
    ELSE FormatBody(<<"#:">>, fmt, args)

\* The warning text reported through util_message_info from inside the section.
util_message_warning_nested(chp, fmt, args) ==
    IF chp = NULL \/ fmt = NULL THEN <<>>
    ELSE <<StWait, StPut(<<"W:">>)>> \o util_message_info(chp, fmt, args) \o <<StSignal>>

util_message_warning(chp, fmt, args) ==
    IF chp = NULL \/ fmt = NULL THEN <<>>
    ELSE FormatBody(<<"W:">>, fmt, args)

util_message_error(chp, fmt, args) ==
    IF chp = NULL \/ fmt = NULL THEN <<>>
    ELSE FormatBody(<<"E:">>, fmt, args)

util_message_bool(chp, name, data) ==
    IF chp = NULL THEN <<>>
    ELSE <<StWait>>
         \o (IF data THEN <<StPut(<<"B:">> \o name \o <<":", "true">> \o CRLF)>>
                     ELSE <<StPut(<<"B:">> \o name \o <<":", "false">> \o CRLF)>>)
         \o <<StSignal>>

\* The NULL test made after the semaphore is taken, returning without a signal.
util_message_string_late_test(chp, name, fmt, args) ==
    IF chp = NULL \/ fmt = NULL THEN <<StWait>>
    ELSE FormatBody(<<"S:">> \o name \o <<":">>, fmt, args)

util_message_string(chp, name, fmt, args) ==
    IF chp = NULL \/ fmt = NULL THEN <<>>
    ELSE FormatBody(<<"S:">> \o name \o <<":">>, fmt, args)

\* for( i = 0; i < count; i++ ) { print element i; if( (i + 1) < count ) print "," }
RECURSIVE IndexLoop(_, _, _)
IndexLoop(elems, i, count) ==
    IF i < count
    THEN <<StPut(elems[i + 1])>>
         \o (IF (i + 1) < count THEN <<StPut(<<",">>)>> ELSE <<>>)
         \o IndexLoop(elems, i + 1, count)
    ELSE <<>>

\* The comma test made on count > 0: a comma after the last element too.
RECURSIVE CountDownLoop_trailing_comma(_, _)
CountDownLoop_trailing_comma(elems, count) ==
    IF count > 0
    THEN <<StPut(Head(elems))>>
         \o (IF count > 0 THEN <<StPut(<<",">>)>> ELSE <<>>)
         \o CountDownLoop_trailing_comma(Tail(elems), count - 1)
    ELSE <<>>

\* for( ; count > 0; count-- ) { print *(data++); if( count > 1 ) print "," }
RECURSIVE CountDownLoop(_, _)
CountDownLoop(elems, count) ==
    IF count > 0
    THEN <<StPut(Head(elems))>>
         \o (IF count > 1 THEN <<StPut(<<",">>)>> ELSE <<>>)
         \o CountDownLoop(Tail(elems), count - 1)
    ELSE <<>>

FmtX2(v) == FmtX(v, 2)
FmtX4(v) == FmtX(v, 4)
FmtX8(w) == FmtX(w.hi, 4) \o FmtX(w.lo, 4)

\* One array element under the chprintf conversion the emitter uses.
Fmt(conv, v) ==
    CASE conv = "%d"   -> FmtD(v)
      [] conv = "%u"   -> FmtU(v)
      [] conv = "%d of uint32_t" -> FmtD(AsInt32(v))
      [] conv = "%f"   -> FmtF(v)
      [] conv = "%02X" -> FmtX2(v)
      [] conv = "%04X" -> FmtX4(v)
      [] conv = "%08X" -> FmtX8(v)

Rendered(data, conv) == [i \in 1..Len(data) |-> Fmt(conv, data[i])]

util_message_string_array(chp, name, str_array, count) ==
    IF chp = NULL THEN <<>>
    ELSE <<StWait, StPut(<<"SA:">> \o name \o <<":">>)>>
         \o IndexLoop(str_array, 0, count)
         \o <<StPut(CRLF), StSignal>>

util_message_double(chp, name, data, count) ==
    IF chp = NULL THEN <<>>
    ELSE <<StWait, StPut(<<"F:">> \o name \o <<":">>)>>
         \o IndexLoop(Rendered(data, "%f"), 0, count)
         \o <<StPut(CRLF), StSignal>>

\* The body shared by the integer and hex array emitters.
ArrayBody(tag, name, elems, count) ==
    <<StWait, StPut(<<tag>> \o name \o <<":">>)>>
    \o CountDownLoop(elems, count)
    \o <<StPut(CRLF), StSignal>>

util_message_int8(chp, name, data, count) ==
    IF chp = NULL THEN <<>> ELSE ArrayBody("S8:", name, Rendered(data, "%d"), count)

util_message_uint8(chp, name, data, count) ==
    IF chp = NULL THEN <<>> ELSE ArrayBody("U8:", name, Rendered(data, "%u"), count)

util_message_int16(chp, name, data, count) ==
    IF chp = NULL THEN <<>> ELSE ArrayBody("S16:", name, Rendered(data, "%d"), count)

util_message_uint16(chp, name, data, count) ==
    IF chp = NULL THEN <<>> ELSE ArrayBody("U16:", name, Rendered(data, "%u"), count)

util_message_int32(chp, name, data, count) ==
    IF chp = NULL THEN <<>> ELSE ArrayBody("S32:", name, Rendered(data, "%d"), count)

util_message_uint32(chp, name, data, count) ==
    IF chp = NULL THEN <<>> ELSE ArrayBody("U32:", name, Rendered(data, "%d of uint32_t"), count)

util_message_hex_uint8(chp, name, data, count) ==
    IF chp = NULL THEN <<>> ELSE ArrayBody("H8:", name, Rendered(data, "%02X"), count)

util_message_hex_uint16(chp, name, data, count) ==
    IF chp = NULL THEN <<>> ELSE ArrayBody("H16:", name, Rendered(data, "%04X"), count)

util_message_hex_uint32(chp, name, data, count) ==
    IF chp = NULL THEN <<>> ELSE ArrayBody("H32:", name, Rendered(data, "%08X"), count)

(***************************************************************************)
(* Fetch core outside the source slice: terminal sets, token matcher,      *)
(* command-table lookup, arity validator, help display, debug macros.      *)
(***************************************************************************)
NO_MATCH == -1

\* The cap on the compared length used by the token matcher.
MAX_TOKEN_LEN == 32

\* The longer of the two lengths, capped.
get_longest_str_length(s1, s2, max) == Min(Max(strlen(s1), strlen(s2)), max)

PinName(i)  == S_PIN \o Digits(i, 10)
PortName(i) == S_PORT \o <<LowerChars[i]>>

fetch_terms ==
    [ gpio_subcommandA |-> <<S_GET, S_SET, S_CLEAR, S_CONFIG>>,
      gpio_direction   |-> <<S_INPUT, S_OUTPUT>>,
      gpio_sense       |-> <<S_PULLUP, S_PULLDOWN, S_FLOATING, S_ANALOG>>,
      port_subcommand  |-> [i \in 1..9 |-> PortName(i)],
      pin_subcommand   |-> [i \in 1..16 |-> PinName(i - 1)] ]

\* Index (from 0) of the first candidate equal to the token over the full
\* compared length, case-insensitively; NO_MATCH for none or a null token.
token_match(chp, set, tok, n) ==
    IF tok = NULL THEN NO_MATCH
    ELSE LET hits == { i \in 1..n :
                         strncasecmp(set[i], tok,
                                     get_longest_str_length(set[i], tok, MAX_TOKEN_LEN)) = 0 }
         IN  IF hits = {} THEN NO_MATCH
             ELSE (CHOOSE i \in hits : \A j \in hits : i <= j) - 1

\* DBG_MSG / DBG_VMSG: util_message_debug with the call site, when debug
\* messages are compiled in.
DBG_MSG(chp, file, line, func, fmt) ==
    IF debug_build THEN util_message_debug(chp, file, line, func, fmt, <<>>) ELSE <<>>

DBG_VMSG(chp, file, line, func, fmt, args) ==
    IF debug_build THEN util_message_debug(chp, file, line, func, fmt, args) ELSE <<>>

(***************************************************************************)
(* gpio.c                                                                  *)
(***************************************************************************)
NO_GPIO_PIN == -1
PIN0 == 0
MAX_PIN_STR_LEN == 8

GPIOA == <<"GPIOA">>

gpio_pinmap == [i \in 1..16 |-> [pinstring |-> PinName(i - 1), pinnum |-> i - 1]]

gpio_portmap ==
    [i \in 1..9 |-> [portstring |-> PortName(i), portptr |-> <<"GPIO" \o UpperChars[i]>>]]

NELEMS(a) == Len(a)

gpio_is_valid_gpio_direction(chp, terms, chkgpio_direction) ==
    token_match(chp, terms.gpio_direction, chkgpio_direction, NELEMS(terms.gpio_direction))

gpio_is_valid_gpio_sense(chp, terms, chkgpio_sense) ==
    token_match(chp, terms.gpio_sense, chkgpio_sense, NELEMS(terms.gpio_sense))

\* Every non-null action token taken as valid.
gpio_is_valid_gpio_subcommandA_any(chp, terms, chkgpio_subcommandA) ==
    IF chkgpio_subcommandA = NULL THEN NO_MATCH ELSE 0

gpio_is_valid_gpio_subcommandA(chp, terms, chkgpio_subcommandA) ==
    token_match(chp, terms.gpio_subcommandA, chkgpio_subcommandA,
                NELEMS(terms.gpio_subcommandA))

gpio_is_valid_port_subcommand(chp, terms, chkport_subcommand) ==
    token_match(chp, terms.port_subcommand, chkport_subcommand,
                NELEMS(terms.port_subcommand))

gpio_is_valid_pin_subcommand(chp, terms, chkpin_subcommand) ==
    token_match(chp, terms.pin_subcommand, chkpin_subcommand,
                NELEMS(terms.pin_subcommand))

\* The comparison made over the length of the map name alone.
string_to_pinnum_prefix(chp, pinstr) ==
    LET hits == { i \in 1..NELEMS(gpio_pinmap) :
                    strncasecmp(gpio_pinmap[i].pinstring, pinstr,
                                strlen(gpio_pinmap[i].pinstring)) = 0 }
    IN  IF hits = {} THEN NO_GPIO_PIN
        ELSE gpio_pinmap[CHOOSE i \in hits : \A j \in hits : i <= j].pinnum

\* The first map entry whose name compares equal over the longer length
\* (capped at MAX_PIN_STR_LEN); NO_GPIO_PIN for none.
string_to_pinnum(chp, pinstr) ==
    LET hits == { i \in 1..NELEMS(gpio_pinmap) :
                    strncasecmp(gpio_pinmap[i].pinstring, pinstr,
                                get_longest_str_length(gpio_pinmap[i].pinstring, pinstr,
                                                       MAX_PIN_STR_LEN)) = 0 }
    IN  IF hits = {} THEN NO_GPIO_PIN
        ELSE gpio_pinmap[CHOOSE i \in hits : \A j \in hits : i <= j].pinnum

string_to_gpioport(chp, portstr) ==
    LET hits == { i \in 1..NELEMS(gpio_portmap) :
                    strncasecmp(gpio_portmap[i].portstring, portstr,
                                get_longest_str_length(gpio_portmap[i].portstring, portstr,
                                                       MAX_PIN_STR_LEN)) = 0 }
    IN  IF hits = {} THEN NULL
        ELSE gpio_portmap[CHOOSE i \in hits : \A j \in hits : i <= j].portptr

\* port0, pin0: what *port and *pin hold on entry.  The result carries the
\* return value and what *port and *pin hold on exit.
gpio_get_port_pin(chp, cmd_list, terms, port0, pin0) ==
    IF gpio_is_valid_port_subcommand(chp, terms, cmd_list.PORT) >= 0
    THEN LET gpio_port == string_to_gpioport(chp, cmd_list.PORT)
         IN  IF gpio_port # NULL
             THEN IF gpio_is_valid_pin_subcommand(chp, terms, cmd_list.PIN) >= 0
                  THEN LET gpio_pinnum == string_to_pinnum(chp, cmd_list.PIN)
                       IN  IF gpio_pinnum # NO_GPIO_PIN
                           THEN [ret |-> TRUE, port |-> gpio_port, pin |-> gpio_pinnum]
                           ELSE [ret |-> FALSE, port |-> gpio_port, pin |-> NO_GPIO_PIN]
                  ELSE [ret |-> FALSE, port |-> gpio_port, pin |-> pin0]
             ELSE [ret |-> FALSE, port |-> NULL, pin |-> pin0]
    ELSE [ret |-> FALSE, port |-> port0, pin |-> pin0]

gpio_get(chp, terms, cmd_list) ==
    LET pp == gpio_get_port_pin(chp, cmd_list, terms, GPIOA, PIN0)
    IN  IF pp.ret /\ (pp.port # NULL) /\ (pp.pin # NO_GPIO_PIN)
        THEN Beh(<<StRead(<<pp.port, pp.pin>>), StPutRv(<<"%d">> \o CRLF)>>, TRUE)
        ELSE Beh(<<>>, FALSE)

gpio_set(chp, terms, cmd_list) ==
    LET pp == gpio_get_port_pin(chp, cmd_list, terms, NULL, PIN0)
    IN  IF pp.ret /\ (pp.port # NULL) /\ (pp.pin # NO_GPIO_PIN)
        THEN Beh(<<StHw(<<"palSetPad", pp.port, pp.pin>>)>>, TRUE)
        ELSE Beh(<<>>, FALSE)

\* The result of gpio_get_port_pin ignored: only the port is tested.
gpio_clear_unchecked(chp, terms, cmd_list) ==
    LET pp == gpio_get_port_pin(chp, cmd_list, terms, NULL, PIN0)
    IN  IF pp.port # NULL
        THEN Beh(<<StHw(<<"palClearPad", pp.port, pp.pin>>)>>, TRUE)
        ELSE Beh(<<>>, FALSE)

gpio_clear(chp, terms, cmd_list) ==
    LET pp == gpio_get_port_pin(chp, cmd_list, terms, NULL, PIN0)
    IN  IF pp.ret /\ (pp.port # NULL) /\ (pp.pin # NO_GPIO_PIN)
        THEN Beh(<<StHw(<<"palClearPad", pp.port, pp.pin>>)>>, TRUE)
        ELSE Beh(<<>>, FALSE)

S_GPIO_C == <<"gpio.c">>
S_GPIO_CONFIG == <<"gpio_config">>
S_GPIO_DISPATCH == <<"gpio_dispatch">>

gpio_config(chp, terms, cmd_list) ==
    IF gpio_is_valid_gpio_direction(chp, terms, cmd_list.DIRECTION) >= 0
    THEN
      IF strncasecmp(cmd_list.DIRECTION, S_INPUT, strlen(S_INPUT)) # 0
         /\ strncasecmp(cmd_list.DIRECTION, S_OUTPUT, strlen(S_OUTPUT)) # 0
      THEN Beh(DBG_MSG(chp, S_GPIO_C, 256, S_GPIO_CONFIG,
                       <<"The port direction is not available">>), FALSE)
      ELSE
        LET direction ==
              IF strncasecmp(cmd_list.DIRECTION, S_INPUT, strlen(S_INPUT)) = 0
              THEN "PAL_STM32_MODE_INPUT" ELSE "PAL_STM32_MODE_OUTPUT"
        IN
        IF gpio_is_valid_gpio_sense(chp, terms, cmd_list.SENSE) >= 0
        THEN
          LET sense ==
                IF strncasecmp(cmd_list.SENSE, S_PULLUP, strlen(S_PULLUP)) = 0
                THEN "PAL_STM32_PUDR_PULLUP"
                ELSE IF strncasecmp(cmd_list.SENSE, S_PULLDOWN, strlen(S_PULLDOWN)) = 0
                THEN "PAL_STM32_PUDR_PULLDOWN"
                ELSE IF strncasecmp(cmd_list.SENSE, S_FLOATING, strlen(S_FLOATING)) = 0
                THEN "PAL_STM32_PUDR_FLOATING"
                ELSE IF strncasecmp(cmd_list.SENSE, S_ANALOG, strlen(S_ANALOG)) = 0
                THEN "PAL_STM32_MODE_ANALOG"
                ELSE "none"
          IN
          IF sense = "none" THEN Beh(<<>>, FALSE)
          ELSE
            LET pp == gpio_get_port_pin(chp, cmd_list, terms, NULL, PIN0)
            IN  IF pp.ret /\ (pp.port # NULL) /\ (pp.pin # NO_GPIO_PIN)
                THEN Beh(DBG_VMSG(chp, S_GPIO_C, 297, S_GPIO_CONFIG,
                                  <<"pin: ", "%d">>, <<FmtD(pp.pin)>>)
                         \o DBG_VMSG(chp, S_GPIO_C, 298, S_GPIO_CONFIG,
                                     <<"port: 0x", "%x", "\t", "0x", "%x">>,
                                     <<pp.port, <<"GPIOA_BASE">>>>)
                         \o DBG_VMSG(chp, S_GPIO_C, 299, S_GPIO_CONFIG,
                                     <<"dir: ", "%d">>, <<<<direction>>>>)
                         \o DBG_VMSG(chp, S_GPIO_C, 300, S_GPIO_CONFIG,
                                     <<"sense: ", "%d">>, <<<<sense>>>>)
                         \o <<StHw(<<"palSetPadMode", pp.port, pp.pin, direction, sense>>)>>,
                         TRUE)
                ELSE Beh(<<>>, FALSE)
        ELSE Beh(<<>>, FALSE)
    ELSE Beh(<<>>, FALSE)

gpio_dispatch(chp, cmd_list, data_list, terms) ==
    IF gpio_is_valid_gpio_subcommandA(chp, terms, cmd_list.ACTIONTOK) >= 0
    THEN IF strncasecmp(cmd_list.ACTIONTOK, S_GET, strlen(S_GET)) = 0
         THEN gpio_get(chp, terms, cmd_list)
         ELSE IF strncasecmp(cmd_list.ACTIONTOK, S_SET, strlen(S_SET)) = 0
         THEN gpio_set(chp, terms, cmd_list)
         ELSE IF strncasecmp(cmd_list.ACTIONTOK, S_CLEAR, strlen(S_CLEAR)) = 0
         THEN gpio_clear(chp, terms, cmd_list)
         ELSE IF strncasecmp(cmd_list.ACTIONTOK, S_CONFIG, strlen(S_CONFIG)) = 0
         THEN IF (cmd_list.DIRECTION # NULL) /\ (cmd_list.SENSE # NULL)
              THEN gpio_config(chp, terms, cmd_list)
              ELSE Beh(<<>>, FALSE)
         ELSE Beh(DBG_MSG(chp, S_GPIO_C, 338, S_GPIO_DISPATCH,
                          <<"sub-command not ready yet...">>), FALSE)
    ELSE Beh(<<>>, FALSE)

(***************************************************************************)
(* strtol(str, &endptr, 0) of the C library, for a 32-bit long.            *)
(***************************************************************************)
LONG_MAX == 2147483647

isspace(c) == c \in {" ", "\t", "\n", "\r", "\f"}

\* The value of a digit character, 99 for any other character.
DigitVal(c) ==
    IF \E i \in 1..Len(DigitChars) : tolower(DigitChars[i]) = tolower(c)
    THEN (CHOOSE i \in 1..Len(DigitChars) : tolower(DigitChars[i]) = tolower(c)) - 1
    ELSE 99

IsDigitAt(s, i, base) == i <= Len(s) /\ DigitVal(s[i]) < base

RECURSIVE SkipSpace(_, _)
SkipSpace(s, i) == IF i <= Len(s) /\ isspace(s[i]) THEN SkipSpace(s, i + 1) ELSE i

\* Accumulates the digits from position i on; big: the magnitude exceeds LONG_MAX.
RECURSIVE ScanDigits(_, _, _, _, _)
ScanDigits(s, i, base, acc, big) ==
    IF IsDigitAt(s, i, base)
    THEN LET d == DigitVal(s[i])
             over == big \/ acc > (LONG_MAX - d) \div base
         IN  ScanDigits(s, i + 1, base, IF over THEN LONG_MAX ELSE acc * base + d, over)
    ELSE [val |-> acc, pos |-> i, big |-> big]

\* A conversion that reads the leading decimal digits and reports the whole
\* string as consumed.
strtol_numeric_prefix(str) ==
    [val |-> ScanDigits(str, 1, 10, 0, FALSE).val, endpos |-> Len(str) + 1]

\* val: the converted value (LONG_MAX or LONG_MIN when out of range); endpos:
\* the position endptr points to (Len + 1 is the terminating NUL).
strtol(str) ==
    LET p0   == SkipSpace(str, 1)
        neg  == p0 <= Len(str) /\ str[p0] = "-"
        p1   == IF p0 <= Len(str) /\ str[p0] \in {"-", "+"} THEN p0 + 1 ELSE p0
        hex  == /\ p1 + 1 <= Len(str)
                /\ str[p1] = "0"
                /\ str[p1 + 1] \in {"x", "X"}
                /\ IsDigitAt(str, p1 + 2, 16)
        base == IF hex THEN 16 ELSE IF p1 <= Len(str) /\ str[p1] = "0" THEN 8 ELSE 10
        p2   == IF hex THEN p1 + 2 ELSE p1
        sc   == ScanDigits(str, p2, base, 0, FALSE)
    IN  IF sc.pos = p2
        THEN [val |-> 0, endpos |-> 1]
        ELSE [val |-> IF neg THEN (IF sc.big THEN (0 - LONG_MAX) - 1 ELSE 0 - sc.val)
                      ELSE sc.val,
              endpos |-> sc.pos]

(***************************************************************************)
(* Fetch core outside the source slice: arity validator, help, lookup.     *)
(***************************************************************************)
\* The number of populated path slots up to and including the given depth is
\* sufficient and the argument count is exactly the expected one; otherwise an
\* error line is emitted and the handler body does not run.
fetch_input_check(chp, cmd_list, depth_tok, data_list, expected) ==
    IF cmd_list[depth_tok] # NULL /\ Len(data_list) = expected
    THEN Beh(<<>>, TRUE)
    ELSE Beh(util_message_error(chp, <<"invalid number of arguments">>, <<>>), FALSE)

\* One informational line per entry of the command table.
RECURSIVE fetch_display_help(_, _)
fetch_display_help(chp, table) ==
    IF table = <<>> THEN <<>>
    ELSE util_message_info(chp, <<"%s", ": ", "%s">>, <<Head(table).name, Head(table).help>>)
         \o fetch_display_help(chp, Tail(table))

(***************************************************************************)
(* fetch_dac.c                                                             *)
(***************************************************************************)
fetch_dac_commands ==
    << [fn |-> "fetch_dac_help_cmd",  name |-> S_HELP,  help |-> <<"DAC command help">>],
       [fn |-> "fetch_dac_write_cmd", name |-> S_WRITE,
        help |-> <<"Write values to DAC", "\n", "Usage: write(<channel>, <value>)">>],
       [fn |-> "fetch_dac_reset_cmd", name |-> S_RESET,
        help |-> <<"Reset all DAC outputs to 0v">>] >>

\* The parameters are uint16_t: the arguments are converted modulo 2^16.
\* value |= (channel << 14); value |= (1 << 12): the fields do not overlap a
\* 12-bit value, so the bitwise or is a sum.
\* The channel shifted into bits 14..13 instead of 15..14.
external_dac_write_channel_bits(channel_arg, value_arg) ==
    LET channel == channel_arg % 65536
        value   == value_arg % 65536
    IN  IF channel > 3 \/ value > 4095
        THEN Beh(<<>>, FALSE)
        ELSE LET framed == (value + channel * 8192 + 4096) % 65536
             IN  Beh(<<StHw(<<"spiSelect">>),
                       StHw(<<"spiSend", framed \div 256, framed % 256>>),
                       StHw(<<"spiUnselect">>)>>, TRUE)

\* The range test reporting success.
external_dac_write_accepts(channel_arg, value_arg) ==
    LET channel == channel_arg % 65536
        value   == value_arg % 65536
    IN  IF channel > 3 \/ value > 4095
        THEN Beh(<<>>, TRUE)
        ELSE LET framed == (value + channel * 16384 + 4096) % 65536
             IN  Beh(<<StHw(<<"spiSelect">>),
                       StHw(<<"spiSend", framed \div 256, framed % 256>>),
                       StHw(<<"spiUnselect">>)>>, TRUE)

external_dac_write(channel_arg, value_arg) ==
    LET channel == channel_arg % 65536
        value   == value_arg % 65536
    IN  IF channel > 3 \/ value > 4095
        THEN Beh(<<>>, FALSE)
        ELSE LET framed == (value + channel * 16384 + 4096) % 65536
             IN  Beh(<<StHw(<<"spiSelect">>),
                       StHw(<<"spiSend", framed \div 256, framed % 256>>),
                       StHw(<<"spiUnselect">>)>>, TRUE)

fetch_dac_reset(chp) ==
    Beh(<<StHw(<<"dacPutChannelX", 0, 0>>)>>
        \o external_dac_write(0, 0).ops
        \o external_dac_write(1, 0).ops
        \o external_dac_write(2, 0).ops
        \o external_dac_write(3, 0).ops, TRUE)

fetch_dac_help_cmd(chp, cmd_list, data_list) ==
    LET chk == fetch_input_check(chp, cmd_list, "SUBCMD_0", data_list, 0)
    IN  IF ~chk.ret THEN Beh(chk.ops, FALSE)
        ELSE Beh(chk.ops
                 \o util_message_info(chp, <<"Fetch DAC Help:">>, <<>>)
                 \o fetch_display_help(chp, fetch_dac_commands), TRUE)

fetch_dac_write_cmd(chp, cmd_list, data_list) ==
    LET chk == fetch_input_check(chp, cmd_list, "SUBCMD_0", data_list, 2)
    IN  IF ~chk.ret THEN Beh(chk.ops, FALSE)
        ELSE
          LET c == strtol(data_list[1])
              channel == c.val
          IN
          IF c.endpos <= Len(data_list[1])
          THEN Beh(chk.ops \o util_message_error(chp, <<"invalid channel">>, <<>>), FALSE)
          ELSE
            LET v == strtol(data_list[2])
                value == v.val
            IN
            IF v.endpos <= Len(data_list[2])
            THEN Beh(chk.ops \o util_message_error(chp, <<"invalid value">>, <<>>), FALSE)
            ELSE IF channel \in {0, 1, 2, 3}
            THEN LET w == external_dac_write(channel, value)
                 IN  Beh(chk.ops \o w.ops, w.ret)
            ELSE IF channel = 4
            THEN Beh(chk.ops \o <<StHw(<<"dacPutChannelX", 0, value>>)>>, TRUE)
            ELSE Beh(chk.ops \o util_message_error(chp, <<"invalid channel">>, <<>>), FALSE)

\* The outputs reset before the argument count is checked.
fetch_dac_reset_cmd_resets_first(chp, cmd_list, data_list) ==
    LET r   == fetch_dac_reset(chp)
        chk == fetch_input_check(chp, cmd_list, "SUBCMD_0", data_list, 0)
    IN  Beh(r.ops \o chk.ops, chk.ret /\ r.ret)

fetch_dac_reset_cmd(chp, cmd_list, data_list) ==
    LET chk == fetch_input_check(chp, cmd_list, "SUBCMD_0", data_list, 0)
    IN  IF ~chk.ret THEN Beh(chk.ops, FALSE)
        ELSE LET r == fetch_dac_reset(chp) IN Beh(chk.ops \o r.ops, r.ret)

\* What fetch_dac_init executes after it has found dac_init_flag false.
fetch_dac_init_body(chp) ==
    <<StHw(<<"dacStart">>), StHw(<<"spiStart">>)>>
    \o fetch_dac_reset(chp).ops
    \o <<StInitSet>>

fetch_dac_init(chp) == <<StInitTest>>

\* Calls the handler bound to a table entry.
CallHandler(fn, chp, cmd_list, data_list) ==
    CASE fn = "fetch_dac_help_cmd"  -> fetch_dac_help_cmd(chp, cmd_list, data_list)
      [] fn = "fetch_dac_write_cmd" -> fetch_dac_write_cmd(chp, cmd_list, data_list)
      [] fn = "fetch_dac_reset_cmd" -> fetch_dac_reset_cmd(chp, cmd_list, data_list)

\* Case-insensitive full-length lookup of the token in the command table; the
\* first matching entry's handler is called, an unknown token is reported.
fetch_dispatch(chp, table, tok, cmd_list, data_list) ==
    LET hits == IF tok = NULL THEN {}
                ELSE { i \in 1..Len(table) :
                         strncasecmp(table[i].name, tok,
                                     get_longest_str_length(table[i].name, tok,
                                                            MAX_TOKEN_LEN)) = 0 }
    IN  IF hits = {}
        THEN Beh(util_message_error(chp, <<"unknown command">>, <<>>), FALSE)
        ELSE CallHandler(table[CHOOSE i \in hits : \A j \in hits : i <= j].fn,
                         chp, cmd_list, data_list)

fetch_dac_dispatch(chp, cmd_list, data_list) ==
    LET d == fetch_dispatch(chp, fetch_dac_commands, cmd_list["SUBCMD_0"], cmd_list, data_list)
    IN  Beh(fetch_dac_init(chp) \o d.ops, d.ret)

(***************************************************************************)
(* Commands and calls a thread may be given.                               *)
(***************************************************************************)
CHP == <<"chp">>

NoCall == [fn |-> "none", chp |-> NULL, name |-> NULL, fmt |-> NULL, args |-> <<>>,
           data |-> <<>>, strs |-> <<>>, count |-> 0]

NoPath == [SUBCMD_0 |-> NULL, ACTIONTOK |-> NULL, PORT |-> NULL, PIN |-> NULL,
           DIRECTION |-> NULL, SENSE |-> NULL]

NoCmd == [mod |-> "none", cmd_list |-> NoPath, data_list |-> <<>>, call |-> NoCall]

GpioCmd(action, port, pin, direction, sense) ==
    [mod |-> "gpio",
     cmd_list |-> [SUBCMD_0 |-> action, ACTIONTOK |-> action, PORT |-> port, PIN |-> pin,
                   DIRECTION |-> direction, SENSE |-> sense],
     data_list |-> <<>>, call |-> NoCall]

DacCmd(subcmd, data) ==
    [mod |-> "dac", cmd_list |-> [NoPath EXCEPT !.SUBCMD_0 = subcmd],
     data_list |-> data, call |-> NoCall]

EmitCmd(call) == [mod |-> "emit", cmd_list |-> NoPath, data_list |-> <<>>, call |-> call]

FmtCall(fn, chp, fmt) == [NoCall EXCEPT !.fn = fn, !.chp = chp, !.name = <<"v">>, !.fmt = fmt]

ArrCall(fn, chp, data, count) ==
    [NoCall EXCEPT !.fn = fn, !.chp = chp, !.name = <<"v">>, !.data = data, !.count = count]

StrArrCall(chp, strs, count) ==
    [NoCall EXCEPT !.fn = "string_array", !.chp = chp, !.name = <<"v">>, !.strs = strs,
                   !.count = count]

\* A direct call of one emission function (a background task reporting).
EmitCall(c) ==
    CASE c.fn = "begin"   -> util_message_begin(c.chp)
      [] c.fn = "end"     -> util_message_end(c.chp, c.count > 0)
      [] c.fn = "debug"   -> util_message_debug(c.chp, <<"task.c">>, 10, <<"task">>, c.fmt, c.args)
      [] c.fn = "info"    -> util_message_info(c.chp, c.fmt, c.args)
      [] c.fn = "warning" -> util_message_warning(c.chp, c.fmt, c.args)
      [] c.fn = "error"   -> util_message_error(c.chp, c.fmt, c.args)
      [] c.fn = "bool"    -> util_message_bool(c.chp, c.name, c.count > 0)
      [] c.fn = "string"  -> util_message_string(c.chp, c.name, c.fmt, c.args)
      [] c.fn = "string_array" -> util_message_string_array(c.chp, c.name, c.strs, c.count)
      [] c.fn = "double"  -> util_message_double(c.chp, c.name, c.data, c.count)
      [] c.fn = "int8"    -> util_message_int8(c.chp, c.name, c.data, c.count)
      [] c.fn = "uint8"   -> util_message_uint8(c.chp, c.name, c.data, c.count)
      [] c.fn = "int16"   -> util_message_int16(c.chp, c.name, c.data, c.count)
      [] c.fn = "uint16"  -> util_message_uint16(c.chp, c.name, c.data, c.count)
      [] c.fn = "int32"   -> util_message_int32(c.chp, c.name, c.data, c.count)
      [] c.fn = "uint32"  -> util_message_uint32(c.chp, c.name, c.data, c.count)
      [] c.fn = "hex_uint8"  -> util_message_hex_uint8(c.chp, c.name, c.data, c.count)
      [] c.fn = "hex_uint16" -> util_message_hex_uint16(c.chp, c.name, c.data, c.count)
      [] c.fn = "hex_uint32" -> util_message_hex_uint32(c.chp, c.name, c.data, c.count)

\* The framing of one dispatched command: BEGIN, the module's dispatch, END
\* with the verdict the dispatch returned.
Transaction(chp, h) ==
    util_message_begin(chp) \o h.ops \o <<StReturn(h.ret)>> \o util_message_end(chp, h.ret)

\* A caller that converts one string twice and keeps both results.
MatchCalls(c) ==
    IF c.fn = "string_to_pinnum"
    THEN <<StResult(string_to_pinnum(c.chp, c.name)),
           StResult(string_to_pinnum(c.chp, c.name))>>
    ELSE <<StResult(string_to_gpioport(c.chp, c.name)),
           StResult(string_to_gpioport(c.chp, c.name))>>

\* Everything a thread executes for one command.
Script(c) ==
    (CASE c.mod = "gpio" ->
            Transaction(CHP, gpio_dispatch(CHP, c.cmd_list, c.data_list, fetch_terms))
       [] c.mod = "dac"  ->
            Transaction(CHP, fetch_dac_dispatch(CHP, c.cmd_list, c.data_list))
       [] c.mod = "emit" -> EmitCall(c.call)
       [] c.mod = "match" -> MatchCalls(c.call))
    \o <<StDone>>


(***************************************************************************)
(* Input sets.                                                             *)
(***************************************************************************)
S_GET_UC == <<"G","E","T">>
S_GETS == <<"g","e","t","s">>
S_GE == <<"g","e">>
S_INPUTS == <<"i","n","p","u","t","s">>
S_PULLUPS == <<"p","u","l","l","u","p","s">>
S_PORTA == <<"p","o","r","t","a">>
S_PORTB_MC == <<"P","o","r","t","B">>
S_PORTZ == <<"p","o","r","t","z">>
S_PIN1 == <<"p","i","n","1">>
S_PIN10 == <<"p","i","n","1","0">>
S_PIN16 == <<"p","i","n","1","6">>
S_IN == <<"i","n">>
S_UP == <<"u","p">>
S_WRITE_UC == <<"W","R","I","T","E">>
S_WRI == <<"w","r","i">>
S_A_4 == <<"4">>
S_A_2048 == <<"2","0","4","8">>
S_A_9 == <<"9">>
S_A_100 == <<"1","0","0">>
S_A_1 == <<"1">>
S_A_4X == <<"4","x">>
S_A_0XFFF == <<"0","x","F","F","F">>
S_A_4096 == <<"4","0","9","6">>
S_A_65536 == <<"6","5","5","3","6">>
S_A_M1 == <<"-","1">>
S_A_EMPTY == <<>>

ActionTokens    == {NULL, S_GET, S_SET, S_CLEAR, S_CONFIG, S_GET_UC, S_GETS, S_GE}
PortTokens      == {NULL, S_PORTA, S_PORTB_MC, S_PORTZ}
PinTokens       == {NULL, S_PIN1, S_PIN10, S_PIN, S_PIN16}
DirectionTokens == {NULL, S_INPUT, S_OUTPUT, S_IN, S_INPUTS}
SenseTokens     == {NULL, S_PULLUP, S_ANALOG, S_UP, S_PULLUPS}

\* Direction and sense tokens are read by config alone: they vary with config
\* and are absent or both present with the other actions.
GpioCmds ==
    { GpioCmd(S_CONFIG, po, pi, d, se) :
        po \in PortTokens, pi \in PinTokens,
        d \in DirectionTokens, se \in SenseTokens }
    \cup { GpioCmd(a, po, pi, ds[1], ds[2]) :
             a \in ActionTokens \ {S_CONFIG}, po \in PortTokens, pi \in PinTokens,
             ds \in {<<NULL, NULL>>, <<S_INPUT, S_PULLUP>>} }

SubcmdTokens == {NULL, S_HELP, S_WRITE, S_RESET, S_WRITE_UC, S_WRI}
ArgStrings   == {S_A_4, S_A_2048, S_A_9, S_A_100, S_A_1, S_A_4X, S_A_0XFFF, S_A_4096,
                 S_A_65536, S_A_M1, S_A_EMPTY}
ArgLists     == {<<>>} \cup { <<a>> : a \in ArgStrings }
                \cup { <<a, b>> : a \in ArgStrings, b \in ArgStrings }
                \cup { <<a, b, S_A_1>> : a \in {S_A_4, S_A_1}, b \in {S_A_100, S_A_4X} }

\* The argument strings are parsed by write alone: they vary with the write
\* tokens, and only their number varies with the other tokens.
DacCmds ==
    { DacCmd(sc, dl) : sc \in {S_WRITE, S_WRITE_UC}, dl \in ArgLists }
    \cup { DacCmd(sc, SubSeq(<<S_A_4, S_A_100, S_A_1>>, 1, n)) :
             sc \in SubcmdTokens \ {S_WRITE, S_WRITE_UC}, n \in 0..3 }

\* Every command the shell thread may be given.
SeqCmds == GpioCmds \cup DacCmds

EmitCmds ==
    { EmitCmd(FmtCall("info", CHP, <<"tick">>)),
      EmitCmd(FmtCall("warning", NULL, <<"low">>)),
      EmitCmd(FmtCall("string", CHP, NULL)),
      EmitCmd(ArrCall("uint16", CHP, <<7, 8>>, 2)),
      EmitCmd(StrArrCall(CHP, <<<<"a">>, <<"b">>>>, 2)) }

\* One call of each emission function, for threads that only report.
LiveCmds ==
    { EmitCmd(FmtCall(fn, CHP, <<"tick">>)) :
          fn \in {"begin", "end", "debug", "info", "warning", "error", "bool", "string"} }
    \cup { EmitCmd(ArrCall(fn, CHP, <<7, 8>>, 2)) :
          fn \in {"double", "int8", "uint8", "int16", "uint16", "int32",
                  "hex_uint8", "hex_uint16"} }
    \cup { EmitCmd(ArrCall("uint32", CHP, <<>>, 0)),
           EmitCmd(ArrCall("hex_uint32", CHP, <<>>, 0)),
           EmitCmd(StrArrCall(CHP, <<<<"a">>, <<"b">>>>, 2)),
           EmitCmd(FmtCall("warning", NULL, <<"low">>)) }

\* Format-driven calls: templates with and without a conversion, ending in
\* a line terminator or not, with arguments that end in one or not.
FmtArgsCall(fn, chp, fmt, args) ==
    [NoCall EXCEPT !.fn = fn, !.chp = chp, !.name = <<"v">>, !.fmt = fmt, !.args = args]

PlainTemplates == { <<>>, <<"tick">>, <<"x", "\n">>, <<"x", "\r">>, <<"x", "\r", "\n">> }
ConvTemplates  == { <<"%s">>, <<"v=", "%s", ";">>, <<"%s", "\n">> }
StringArgs     == { <<>>, <<"a">>, <<"a", "\n">>, <<"a", "\r", "\n">> }

FormatFns == {"debug", "info", "warning", "error", "string"}

FormatCmds ==
    { EmitCmd(FmtArgsCall(fn, CHP, fmt, <<>>)) : fn \in FormatFns, fmt \in PlainTemplates }
    \cup { EmitCmd(FmtArgsCall(fn, CHP, fmt, <<a>>)) :
             fn \in FormatFns, fmt \in ConvTemplates, a \in StringArgs }
    \cup { EmitCmd([FmtCall("bool", CHP, <<>>) EXCEPT !.count = n]) : n \in {0, 1} }

\* Array calls: every count from 0 to the length of the array.
MaxElems == 3

IntArrayFns == {"double", "int8", "uint8", "int16", "uint16", "int32",
                "hex_uint8", "hex_uint16"}

IntArrays ==
    [ double     |-> <<1500000, -250000, 0, 3141593>>,
      int8       |-> <<-128, 127, 0, -1>>,
      uint8      |-> <<255, 0, 7, 128>>,
      int16      |-> <<-32768, 32767, -1, 0>>,
      uint16     |-> <<65535, 0, 10, 32768>>,
      int32      |-> <<-2147483647, 2147483647, 0, -1>>,
      hex_uint8  |-> <<255, 0, 10, 16>>,
      hex_uint16 |-> <<65535, 1, 256, 4096>> ]

StringArrays == { <<>>, << <<"a">> >>, << <<"a">>, <<"b", "c">>, <<>> >> }

\* An array of MaxElems elements at most and a count within it.
Counted(arrays) == { <<a, n>> \in arrays \X (0..MaxElems) : n <= Len(a) }

ArrayCmds ==
    { EmitCmd(ArrCall(fn, CHP, SubSeq(IntArrays[fn], 1, lc[1]), lc[2])) :
          fn \in IntArrayFns, lc \in { p \in (0..MaxElems) \X (0..MaxElems) : p[2] <= p[1] } }
    \cup { EmitCmd(StrArrCall(CHP, ac[1], ac[2])) : ac \in Counted(StringArrays) }

\* 32-bit unsigned elements, below and from 2^31 on.
WordArrays ==
    { <<>>, <<Word(0, 7)>>, <<Word(32768, 1)>>,
      <<Word(65535, 65535), Word(1, 0), Word(32767, 65535)>> }

WordCmds ==
    { EmitCmd(ArrCall(fn, CHP, ac[1], ac[2])) :
          fn \in {"uint32", "hex_uint32"}, ac \in Counted(WordArrays) }

\* The commands given to concurrently running threads.
ConcCmds ==
    { GpioCmd(S_GET, S_PORTA, S_PIN1, NULL, NULL),
      GpioCmd(S_SET, S_PORTA, S_PIN1, NULL, NULL),
      DacCmd(S_WRITE, <<S_A_9, S_A_100>>),
      DacCmd(S_WRITE, <<S_A_1, S_A_100>>) }
    \cup EmitCmds

(***************************************************************************)
(* The state machine.                                                      *)
(***************************************************************************)
Idle(t) == todo[t] = <<>>

Init ==
    /\ mshell_io_sem = FALSE
    /\ inCS = {}
    /\ dac_init_flag = FALSE
    /\ chan = <<>>
    /\ todo = [t \in Threads |-> <<>>]
    /\ cmd = [t \in Threads |-> NoCmd]
    /\ result = [t \in Threads |-> <<>>]
    /\ ncmd = [t \in Threads |-> 0]
    /\ ncall = [t \in Threads |-> 0]
    /\ rv = [t \in Threads |-> 0]
    /\ hwlog = [t \in Threads |-> <<>>]
    /\ debug_build \in BOOLEAN

\* Thread t is given one of the commands.
Dispatch(t, commands, max) ==
    /\ Idle(t)
    /\ ncmd[t] < max
    /\ \E c \in commands :
         /\ todo' = [todo EXCEPT ![t] = Script(c)]
         /\ cmd' = [cmd EXCEPT ![t] = c]
    /\ ncmd' = [ncmd EXCEPT ![t] = @ + 1]
    /\ UNCHANGED <<mshell_io_sem, inCS, dac_init_flag, chan, result, ncall, rv, hwlog,
                   debug_build>>

\* chBSemWait( &mshell_io_sem ): blocks while the semaphore is taken.
chBSemWait(t) ==
    /\ ~Idle(t)
    /\ Head(todo[t]).op = "chBSemWait"
    /\ ~mshell_io_sem
    /\ mshell_io_sem' = TRUE
    /\ inCS' = inCS \cup {t}
    /\ ncall' = [ncall EXCEPT ![t] = @ + 1]
    /\ todo' = [todo EXCEPT ![t] = Tail(@)]
    /\ UNCHANGED <<dac_init_flag, chan, cmd, result, ncmd, rv, hwlog, debug_build>>

chBSemSignal(t) ==
    /\ ~Idle(t)
    /\ Head(todo[t]).op = "chBSemSignal"
    /\ mshell_io_sem' = FALSE
    /\ inCS' = inCS \ {t}
    /\ todo' = [todo EXCEPT ![t] = Tail(@)]
    /\ UNCHANGED <<dac_init_flag, chan, cmd, result, ncmd, ncall, rv, hwlog, debug_build>>

\* A chunk on the channel: who wrote it, in which of its calls, from which
\* code, whether the writer was inside its critical section, and the text.
Chunk(t, call, fn, text) ==
    [t |-> t, call |-> call, fn |-> fn, held |-> t \in inCS, text |-> text]

\* chprintf / chvprintf inside a util_message function.
chprintf(t) ==
    /\ ~Idle(t)
    /\ Head(todo[t]).op = "chprintf"
    /\ chan' = Append(chan, Chunk(t, ncall[t], "util_message", Head(todo[t]).arg))
    /\ todo' = [todo EXCEPT ![t] = Tail(@)]
    /\ UNCHANGED <<mshell_io_sem, inCS, dac_init_flag, cmd, result, ncmd, ncall, rv, hwlog,
                   debug_build>>

\* gpio_get: palReadPad(port, pin) evaluated as the argument of chprintf.
palReadPad(t) ==
    /\ ~Idle(t)
    /\ Head(todo[t]).op = "palReadPad"
    /\ \E level \in {0, 1} : rv' = [rv EXCEPT ![t] = level]
    /\ hwlog' = [hwlog EXCEPT ![t] = Append(@, [call |-> <<"palReadPad">> \o Head(todo[t]).arg,
                                                 phase |-> "handler"])]
    /\ todo' = [todo EXCEPT ![t] = Tail(@)]
    /\ UNCHANGED <<mshell_io_sem, inCS, dac_init_flag, chan, cmd, result, ncmd, ncall,
                   debug_build>>

\* gpio_get: chprintf(chp, "%d\r\n", <the value read>).
chprintf_rv(t) ==
    /\ ~Idle(t)
    /\ Head(todo[t]).op = "chprintf_rv"
    /\ chan' = Append(chan, Chunk(t, ncall[t] + 1, "gpio_get",
                                  chvprintf(Head(todo[t]).arg, <<FmtD(rv[t])>>)))
    /\ ncall' = [ncall EXCEPT ![t] = @ + 1]
    /\ todo' = [todo EXCEPT ![t] = Tail(@)]
    /\ UNCHANGED <<mshell_io_sem, inCS, dac_init_flag, cmd, result, ncmd, rv, hwlog,
                   debug_build>>

InInit(t) == \E i \in 1..Len(todo[t]) : todo[t][i].op = "dac_init_set"

\* A call into a peripheral driver: dacStart, spiStart, dacPutChannelX,
\* spiSelect/spiSend/spiUnselect, palSetPad, palClearPad, palSetPadMode.
HwCall(t) ==
    /\ ~Idle(t)
    /\ Head(todo[t]).op = "hw"
    /\ hwlog' = [hwlog EXCEPT ![t] = Append(@, [call |-> Head(todo[t]).arg,
                                                 phase |-> IF InInit(t) THEN "init"
                                                           ELSE "handler"])]
    /\ todo' = [todo EXCEPT ![t] = Tail(@)]
    /\ UNCHANGED <<mshell_io_sem, inCS, dac_init_flag, chan, cmd, result, ncmd, ncall, rv,
                   debug_build>>

\* fetch_dac_init: if( dac_init_flag ) return; otherwise the body follows.
dac_init_test(t) ==
    /\ ~Idle(t)
    /\ Head(todo[t]).op = "dac_init_test"
    /\ todo' = [todo EXCEPT ![t] = IF dac_init_flag THEN Tail(@)
                                    ELSE fetch_dac_init_body(CHP) \o Tail(@)]
    /\ UNCHANGED <<mshell_io_sem, inCS, dac_init_flag, chan, cmd, result, ncmd, ncall, rv,
                   hwlog, debug_build>>

\* fetch_dac_init: dac_init_flag = true.
dac_init_set(t) ==
    /\ ~Idle(t)
    /\ Head(todo[t]).op = "dac_init_set"
    /\ dac_init_flag' = TRUE
    /\ todo' = [todo EXCEPT ![t] = Tail(@)]
    /\ UNCHANGED <<mshell_io_sem, inCS, chan, cmd, result, ncmd, ncall, rv, hwlog,
                   debug_build>>

\* The module's dispatch returns its verdict to the framing code.
Return(t) ==
    /\ ~Idle(t)
    /\ Head(todo[t]).op = "return"
    /\ result' = [result EXCEPT ![t] = Head(todo[t]).arg]
    /\ todo' = [todo EXCEPT ![t] = Tail(@)]
    /\ UNCHANGED <<mshell_io_sem, inCS, dac_init_flag, chan, cmd, ncmd, ncall, rv, hwlog,
                   debug_build>>

NotBy(t, ch) == ch.t # t

\* The command is over: its locals go, and the host has taken its output.
Done(t) ==
    /\ ~Idle(t)
    /\ Head(todo[t]).op = "done"
    /\ todo' = [todo EXCEPT ![t] = Tail(@)]
    /\ cmd' = [cmd EXCEPT ![t] = NoCmd]
    /\ result' = [result EXCEPT ![t] = <<>>]
    /\ ncall' = [ncall EXCEPT ![t] = 0]
    /\ rv' = [rv EXCEPT ![t] = 0]
    /\ hwlog' = [hwlog EXCEPT ![t] = <<>>]
    /\ chan' = SelectSeq(chan, LAMBDA ch : NotBy(t, ch))
    /\ UNCHANGED <<mshell_io_sem, inCS, dac_init_flag, ncmd, debug_build>>

Step(t) ==
    \/ chBSemWait(t)
    \/ chBSemSignal(t)
    \/ chprintf(t)
    \/ palReadPad(t)
    \/ chprintf_rv(t)
    \/ HwCall(t)
    \/ dac_init_test(t)
    \/ dac_init_set(t)
    \/ Return(t)
    \/ Done(t)

\* Concurrent threads.
Next ==
    \E t \in Threads :
        \/ Dispatch(t, ConcCmds, MaxConcCmds)
        \/ Step(t)

Spec == Init /\ [][Next]_vars

\* Threads that only call emission functions, scheduled fairly: a running
\* thread keeps running, and a thread waiting on the semaphore is served
\* (the semaphore queues its waiters; a signal hands it to the first one).
EmitNext ==
    \E t \in Threads :
        \/ Dispatch(t, LiveCmds, MaxEmitCalls)
        \/ chBSemWait(t)
        \/ chprintf(t)
        \/ chBSemSignal(t)
        \/ Done(t)

FairSpec ==
    /\ Init
    /\ [][EmitNext]_vars
    /\ \A t \in Threads :
          /\ WF_vars(chprintf(t) \/ chBSemSignal(t) \/ Done(t))
          /\ SF_vars(chBSemWait(t))

\* One shell thread given any command.
ShellThread == 1

DispatchNext ==
    \/ Dispatch(ShellThread, SeqCmds, MaxCmds)
    \/ Step(ShellThread)

DispatchSpec == Init /\ [][DispatchNext]_vars

\* One thread calling the emission functions directly with every kind of
\* template, argument and array.
ReportNext ==
    \/ Dispatch(ShellThread, FormatCmds, MaxCmds)
    \/ Dispatch(ShellThread, ArrayCmds, MaxCmds)
    \/ Dispatch(ShellThread, WordCmds, MaxCmds)
    \/ chBSemWait(ShellThread)
    \/ chprintf(ShellThread)
    \/ chBSemSignal(ShellThread)
    \/ Done(ShellThread)

ReportSpec == Init /\ [][ReportNext]_vars

(***************************************************************************)
(* Reading the channel.                                                    *)
(***************************************************************************)
HeadOp(t) == IF Idle(t) THEN "idle" ELSE Head(todo[t]).op

\* The command of thread t is complete: only its return to the caller is left.
AtEnd(t) == HeadOp(t) = "done"

Dispatching(t) == cmd[t].mod \in {"gpio", "dac"}

RECURSIVE Concat(_)
Concat(texts) == IF texts = <<>> THEN <<>> ELSE Head(texts) \o Concat(Tail(texts))

\* The indices of the chunks of call k of thread t.
CallChunks(t, k) == { i \in DOMAIN chan : chan[i].t = t /\ chan[i].call = k }

IsBy(t, ch) == ch.t = t

\* Everything thread t has written, in order.
TextOf(t) ==
    LET mine == SelectSeq(chan, LAMBDA ch : IsBy(t, ch))
    IN  Concat([i \in 1..Len(mine) |-> mine[i].text])

\* The text of call k of thread t.
CallText(t, k) ==
    LET mine == SelectSeq(chan, LAMBDA ch : IsBy(t, ch) /\ ch.call = k)
    IN  Concat([i \in 1..Len(mine) |-> mine[i].text])

\* Splits a text at every CRLF: the complete lines and the unterminated rest.
RECURSIVE SplitLines(_, _, _)
SplitLines(text, cur, acc) ==
    IF text = <<>> THEN [lines |-> acc, rest |-> cur]
    ELSE IF Len(text) >= 2 /\ text[1] = "\r" /\ text[2] = "\n"
         THEN SplitLines(SubSeq(text, 3, Len(text)), <<>>, Append(acc, cur))
         ELSE SplitLines(Tail(text), Append(cur, Head(text)), acc)

LinesOf(t) == SplitLines(TextOf(t), <<>>, <<>>)

EndsWithCRLF(text) ==
    Len(text) >= 2 /\ text[Len(text) - 1] = "\r" /\ text[Len(text)] = "\n"

L_BEGIN     == <<"BEGIN:">>
L_END_OK    == <<"END:OK">>
L_END_ERROR == <<"END:ERROR">>

IsEndLine(l) == l \in {L_END_OK, L_END_ERROR}

(***************************************************************************)
(* C1.  At most one thread is between chBSemWait(mshell_io_sem) and        *)
(* chBSemSignal(mshell_io_sem); every chunk a util_message_* call writes   *)
(* is written inside that section; and between two chunks of one call no   *)
(* chunk of another util_message_* call appears on the channel.            *)
(***************************************************************************)
C1_EmissionsSerialized ==
    /\ Cardinality(inCS) <= 1
    /\ \A i \in DOMAIN chan : chan[i].fn = "util_message" => chan[i].held
    /\ \A i, j, k \in DOMAIN chan :
          ( /\ i < j /\ j < k
            /\ chan[i].fn = "util_message"
            /\ chan[j].fn = "util_message"
            /\ chan[i].t = chan[k].t /\ chan[i].call = chan[k].call )
          => (chan[j].t = chan[i].t /\ chan[j].call = chan[i].call)

\* One thread is inside its section with part of its line written while the
\* other thread is blocked at chBSemWait for a line of its own.
C1_Witness ==
    \E t, u \in Threads :
        /\ t # u
        /\ t \in inCS
        /\ HeadOp(t) = "chprintf"
        /\ CallChunks(t, ncall[t]) # {}
        /\ HeadOp(u) = "chBSemWait"
        /\ mshell_io_sem

(***************************************************************************)
(* C2.  Every chunk on the channel was written by a thread that held the   *)
(* semaphore at the moment of the write, whichever code wrote it.          *)
(***************************************************************************)
C2_EveryWriteGated ==
    \A i \in DOMAIN chan : chan[i].held

(***************************************************************************)
(* C3.  The semaphore is taken exactly while some thread is inside a       *)
(* util_message_* body after its chBSemWait; a thread outside such a body  *)
(* (its call returned, or returned early on a NULL argument) holds         *)
(* nothing, so with no emission in progress the semaphore is free.         *)
(***************************************************************************)
InBody(t) == HeadOp(t) \in {"chprintf", "chBSemSignal"}

NullArgCall(c) ==
    /\ c.mod = "emit"
    /\ \/ c.call.chp = NULL
       \/ c.call.fn \in {"debug", "info", "warning", "error", "string"} /\ c.call.fmt = NULL

C3_GateReleased ==
    /\ mshell_io_sem <=> (inCS # {})
    /\ \A t \in Threads : t \in inCS => InBody(t)
    /\ \A t \in Threads : NullArgCall(cmd[t]) => (t \notin inCS /\ ncall[t] = 0)
    /\ (\A t \in Threads : HeadOp(t) \in {"idle", "done"}) => ~mshell_io_sem

\* A call that acquired the semaphore has returned, a call with a NULL
\* argument has returned early, and nothing else is running.
C3_Witness ==
    \E t, u \in Threads :
        /\ t # u
        /\ AtEnd(t) /\ ncall[t] > 0
        /\ AtEnd(u) /\ NullArgCall(cmd[u])
        /\ ~mshell_io_sem

(***************************************************************************)
(* C5.  A thread holds the semaphore only while it writes one line: inside *)
(* its section it only writes and then signals, and the text written in    *)
(* one section holds at most one CRLF, at its end.  So a line of another   *)
(* thread can appear between the BEGIN: and the END line of a transaction. *)
(***************************************************************************)
RECURSIVE CountCRLF(_)
CountCRLF(text) ==
    IF Len(text) < 2 THEN 0
    ELSE IF text[1] = "\r" /\ text[2] = "\n" THEN 1 + CountCRLF(SubSeq(text, 3, Len(text)))
    ELSE CountCRLF(Tail(text))

C5_GatePerLine ==
    /\ \A t \in Threads : t \in inCS => InBody(t)
    /\ \A t \in Threads : HeadOp(t) \in {"chBSemWait", "hw", "palReadPad", "chprintf_rv",
                                        "return", "dac_init_test", "dac_init_set",
                                        "done", "idle"} => t \notin inCS
    /\ \A i \in DOMAIN chan :
          chan[i].fn = "util_message" =>
             LET text == CallText(chan[i].t, chan[i].call)
             IN  /\ CountCRLF(text) <= 1
                 /\ CountCRLF(text) = 1 => EndsWithCRLF(text)

\* Thread a's BEGIN: line, then a complete and contiguous line of thread b's
\* transaction, then thread a's END line.
C5_Witness ==
    \E a, b \in Threads :
        /\ a # b
        /\ Dispatching(a) /\ Dispatching(b)
        /\ \E i, k \in DOMAIN chan :
              /\ i < k
              /\ chan[i].t = a /\ chan[i].text = L_BEGIN \o CRLF
              /\ chan[k].t = a /\ chan[k].text \in {L_END_OK \o CRLF, L_END_ERROR \o CRLF}
              /\ \E c \in 1..ncall[b] :
                    /\ CallChunks(b, c) # {}
                    /\ \A j \in CallChunks(b, c) : i < j /\ j < k /\ chan[j].held
                    /\ \A j \in DOMAIN chan :
                          (\E x, y \in CallChunks(b, c) : x <= j /\ j <= y)
                          => j \in CallChunks(b, c)
                    /\ Cardinality(CallChunks(b, c)) >= 2
                    /\ EndsWithCRLF(CallText(b, c))
                    /\ CountCRLF(CallText(b, c)) = 1

(***************************************************************************)
(* Reading a command: what resolves, independently of the dispatch code.   *)
(***************************************************************************)
EqNoCase(a, b) ==
    /\ a # NULL
    /\ Len(a) = Len(b)
    /\ \A i \in 1..Len(a) : tolower(a[i]) = tolower(b[i])

OneOf(tok, names) == \E i \in 1..Len(names) : EqNoCase(tok, names[i])

IsAction(c, name) == c.mod = "gpio" /\ EqNoCase(c.cmd_list.ACTIONTOK, name)

PortResolved(tok) == \E i \in 1..9 : EqNoCase(tok, PortName(i))
PinResolved(tok)  == \E i \in 0..15 : EqNoCase(tok, PinName(i))

PortPtrOf(tok) == <<"GPIO" \o UpperChars[CHOOSE i \in 1..9 : EqNoCase(tok, PortName(i))]>>
PinNumOf(tok)  == CHOOSE i \in 0..15 : EqNoCase(tok, PinName(i))

GpioResolved(c) ==
    /\ c.mod = "gpio"
    /\ OneOf(c.cmd_list.ACTIONTOK, <<S_GET, S_SET, S_CLEAR, S_CONFIG>>)
    /\ PortResolved(c.cmd_list.PORT)
    /\ PinResolved(c.cmd_list.PIN)
    /\ IsAction(c, S_CONFIG) =>
          /\ OneOf(c.cmd_list.DIRECTION, <<S_INPUT, S_OUTPUT>>)
          /\ OneOf(c.cmd_list.SENSE, <<S_PULLUP, S_PULLDOWN, S_FLOATING, S_ANALOG>>)

PadOpOf(c) ==
    CASE IsAction(c, S_GET)    -> "palReadPad"
      [] IsAction(c, S_SET)    -> "palSetPad"
      [] IsAction(c, S_CLEAR)  -> "palClearPad"
      [] IsAction(c, S_CONFIG) -> "palSetPadMode"
      [] OTHER                 -> "none"

DacSelected(c, name) == c.mod = "dac" /\ EqNoCase(c.cmd_list.SUBCMD_0, name)

DacResolved(c) ==
    DacSelected(c, S_HELP) \/ DacSelected(c, S_WRITE) \/ DacSelected(c, S_RESET)

ExpectedArgs(c) == IF DacSelected(c, S_WRITE) THEN 2 ELSE 0

ArityMismatch(c) == DacResolved(c) /\ Len(c.data_list) # ExpectedArgs(c)

\* The chunks thread t wrote other than its BEGIN: and END lines.
HandlerChunks(t) ==
    { i \in DOMAIN chan :
        /\ chan[i].t = t
        /\ chan[i].text \notin {L_BEGIN \o CRLF, L_END_OK \o CRLF, L_END_ERROR \o CRLF} }

Returned(t) == result[t] # <<>>

(***************************************************************************)
(* C4.  What a dispatching thread writes is one transaction: the first     *)
(* line is BEGIN:, there is no second BEGIN:, an END line is the last line *)
(* and nothing follows it, and when the command is complete the last line  *)
(* is END:OK exactly when the handler returned true and END:ERROR exactly  *)
(* when it returned false.                                                 *)
(***************************************************************************)
C4_OneTransaction ==
    \A t \in Threads :
        Dispatching(t) =>
            LET sp == LinesOf(t)
                L  == sp.lines
            IN  /\ TextOf(t) # <<>> => (L # <<>> /\ L[1] = L_BEGIN)
                /\ \A k \in 1..Len(L) :
                      /\ IsEndLine(L[k]) => (k = Len(L) /\ sp.rest = <<>>)
                      /\ L[k] = L_BEGIN => k = 1
                /\ AtEnd(t) =>
                      /\ Len(L) >= 2
                      /\ Returned(t)
                      /\ (L[Len(L)] = L_END_OK) <=> (result[t] = <<TRUE>>)
                      /\ (L[Len(L)] = L_END_ERROR) <=> (result[t] = <<FALSE>>)

\* A complete transaction with a line between BEGIN: and END:ERROR.
C4_Witness ==
    \E t \in Threads :
        /\ Dispatching(t) /\ AtEnd(t)
        /\ result[t] = <<FALSE>>
        /\ Len(LinesOf(t).lines) >= 3

(***************************************************************************)
(* C6.  The gate never blocks for ever: no thread waits on mshell_io_sem   *)
(* while holding it, whenever some call is in progress some thread can     *)
(* take a step, and under fair scheduling a thread that holds the gate     *)
(* eventually releases it and a call that has started eventually returns.  *)
(***************************************************************************)
Blocked(t) == HeadOp(t) = "chBSemWait" /\ mshell_io_sem

C6_GateNeverBlocksForever ==
    /\ [](\A t \in Threads : HeadOp(t) = "chBSemWait" => t \notin inCS)
    /\ []((\E t \in Threads : ~Idle(t)) => (\E t \in Threads : ~Idle(t) /\ ~Blocked(t)))
    /\ \A t \in Threads : (t \in inCS) ~> (t \notin inCS)
    /\ \A t \in Threads : (~Idle(t)) ~> Idle(t)

\* One thread waits for the gate while the other is writing a line.
C6_Witness ==
    \E t, u \in Threads :
        /\ t # u
        /\ t \in inCS /\ HeadOp(t) = "chprintf"
        /\ Blocked(u)


(***************************************************************************)
(* C7.  A DAC dispatch whose argument count differs from the selected      *)
(* sub-command's expected count returns failure, and its handler makes no  *)
(* hardware call and parses no argument: the only hardware calls of such   *)
(* a dispatch are those of fetch_dac_init, made before the arity check     *)
(* when it found dac_init_flag false.                                      *)
(***************************************************************************)
InitCalls ==
    [i \in 1..(Len(fetch_dac_init_body(CHP)) - 1) |-> fetch_dac_init_body(CHP)[i].arg]

C7_HandlerTouchesNoHardware ==
    \A t \in Threads :
        ArityMismatch(cmd[t]) =>
            /\ Returned(t) => result[t] = <<FALSE>>
            /\ \A i \in 1..Len(hwlog[t]) : hwlog[t][i].phase = "init"
            /\ Len(hwlog[t]) <= Len(InitCalls)
            /\ \A i \in 1..Len(hwlog[t]) : hwlog[t][i].call = InitCalls[i]
            /\ Returned(t) => Len(hwlog[t]) \in {0, Len(InitCalls)}
            /\ \A i \in HandlerChunks(t) :
                  chan[i].text \notin {<<"invalid channel">>, <<"invalid value">>}

\* The claim as stated: no hardware call at any point of such a dispatch.
C7_NoHardwareAtAll ==
    \A t \in Threads :
        ArityMismatch(cmd[t]) =>
            /\ Returned(t) => result[t] = <<FALSE>>
            /\ hwlog[t] = <<>>

\* A dispatch with a wrong argument count, after the DAC was initialised,
\* has completed with failure.
C7_Witness ==
    \E t \in Threads :
        /\ ArityMismatch(cmd[t]) /\ AtEnd(t)
        /\ Len(cmd[t].data_list) >= 1
        /\ result[t] = <<FALSE>>
        /\ ncmd[t] >= 2 /\ dac_init_flag /\ hwlog[t] = <<>>

(***************************************************************************)
(* C8.  In gpio_dispatch a pad operation is made only when the ACTION,     *)
(* PORT and PIN tokens (for config also DIRECTION and SENSE) resolve; it   *)
(* is then the only one, on the resolved port and pin; set and clear write *)
(* nothing and config writes nothing but ?: debug lines; with an           *)
(* unresolved token the dispatch returns false with no pad operation and   *)
(* no output.                                                              *)
(***************************************************************************)
GpioPadDiscipline(t) ==
    LET c == cmd[t]
    IN  /\ hwlog[t] # <<>> => GpioResolved(c)
        /\ Len(hwlog[t]) <= 1
        /\ \A i \in 1..Len(hwlog[t]) :
              SubSeq(hwlog[t][i].call, 1, 3)
                 = <<PadOpOf(c), PortPtrOf(c.cmd_list.PORT), PinNumOf(c.cmd_list.PIN)>>
        /\ (Returned(t) /\ GpioResolved(c)) => (Len(hwlog[t]) = 1 /\ result[t] = <<TRUE>>)
        /\ ~GpioResolved(c) =>
              /\ hwlog[t] = <<>>
              /\ HandlerChunks(t) = {}
              /\ Returned(t) => result[t] = <<FALSE>>

C8_PadOnlyWhenResolved ==
    \A t \in Threads :
        cmd[t].mod = "gpio" =>
            /\ GpioPadDiscipline(t)
            /\ (IsAction(cmd[t], S_SET) \/ IsAction(cmd[t], S_CLEAR)) => HandlerChunks(t) = {}
            /\ IsAction(cmd[t], S_CONFIG) =>
                  \A i \in HandlerChunks(t) :
                      /\ chan[i].fn = "util_message"
                      /\ Head(CallText(t, chan[i].call)) = "?:"

\* The claim as stated: set, clear and config write no line at all.
C8_ConfigSilent ==
    \A t \in Threads :
        cmd[t].mod = "gpio" =>
            /\ GpioPadDiscipline(t)
            /\ (IsAction(cmd[t], S_SET) \/ IsAction(cmd[t], S_CLEAR) \/ IsAction(cmd[t], S_CONFIG))
                  => HandlerChunks(t) = {}

\* A config with every token resolved has made its pad operation.
C8_Witness ==
    \E t \in Threads :
        /\ IsAction(cmd[t], S_CONFIG) /\ AtEnd(t)
        /\ GpioResolved(cmd[t])
        /\ Len(hwlog[t]) = 1
        /\ hwlog[t][1].call[1] = "palSetPadMode"

(***************************************************************************)
(* C9.  Dispatch returns success only if every path segment resolves and   *)
(* the argument count is accepted.  For gpio_dispatch and for DAC help and *)
(* reset that is also sufficient; DAC write succeeds exactly when, in      *)
(* addition, both arguments are numbers to their last character and the    *)
(* channel is 4, or 0..3 with the value modulo 2^16 at most 0xFFF.         *)
(***************************************************************************)
ResolvedAndArityOk(c) ==
    \/ GpioResolved(c)
    \/ DacResolved(c) /\ Len(c.data_list) = ExpectedArgs(c)

IsNumber(str) == strtol(str).endpos = Len(str) + 1

WriteArgsValid(c) ==
    /\ IsNumber(c.data_list[1])
    /\ IsNumber(c.data_list[2])
    /\ \/ strtol(c.data_list[1]).val = 4
       \/ /\ strtol(c.data_list[1]).val \in 0..3
          /\ strtol(c.data_list[2]).val % 65536 <= 4095

C9_SuccessCharacterised ==
    \A t \in Threads :
        (Dispatching(t) /\ Returned(t)) =>
            ( result[t] = <<TRUE>> <=>
                /\ ResolvedAndArityOk(cmd[t])
                /\ DacSelected(cmd[t], S_WRITE) => WriteArgsValid(cmd[t]) )

\* The claim as stated: success exactly when the path resolves and the
\* argument count is accepted.
C9_SuccessIffResolved ==
    \A t \in Threads :
        (Dispatching(t) /\ Returned(t)) =>
            (result[t] = <<TRUE>> <=> ResolvedAndArityOk(cmd[t]))

\* A DAC write with both arguments, resolved and counted right, has failed.
C9_Witness ==
    \E t \in Threads :
        /\ DacSelected(cmd[t], S_WRITE) /\ AtEnd(t)
        /\ ResolvedAndArityOk(cmd[t])
        /\ result[t] = <<FALSE>>

(***************************************************************************)
(* C10.  Whenever fetch_dac_write_cmd has returned false, an E: line has   *)
(* been written by the dispatching thread.                                 *)
(***************************************************************************)
C10_FailureHasDiagnostic ==
    \A t \in Threads :
        (DacSelected(cmd[t], S_WRITE) /\ result[t] = <<FALSE>>) =>
            \E i \in DOMAIN chan : chan[i].t = t /\ chan[i].text = <<"E:">>

(***************************************************************************)
(* Reading a DAC write: its parsed arguments and what its handler did.     *)
(***************************************************************************)
WellFormedWrite(c) ==
    /\ DacSelected(c, S_WRITE)
    /\ Len(c.data_list) = 2
    /\ IsNumber(c.data_list[1])
    /\ IsNumber(c.data_list[2])

ChannelOf(c) == strtol(c.data_list[1]).val
ValueOf(c)   == strtol(c.data_list[2]).val

\* The hardware calls of the dispatch made outside fetch_dac_init.
HandlerCalls(t) ==
    LET h == SelectSeq(hwlog[t], LAMBDA e : e.phase = "handler")
    IN  [i \in 1..Len(h) |-> h[i].call]

\* The DAC124S085 frame: channel in bits 15..14, op 1 in bits 13..12, value.
FrameOf(channel, value) ==
    LET framed == value + channel * 16384 + 4096
    IN  << <<"spiSelect">>, <<"spiSend", framed \div 256, framed % 256>>, <<"spiUnselect">> >>

ErrorLine(t, text) ==
    \E i \in HandlerChunks(t) :
        /\ chan[i].text = <<text>>
        /\ CallText(t, chan[i].call) = <<"E:", text>> \o CRLF

(***************************************************************************)
(* C11.  A DAC write on a channel 0..4 whose parsed value is outside       *)
(* 0..0xFFF returns failure and its handler makes no hardware call.        *)
(***************************************************************************)
C11_OutOfRangeRejected ==
    \A t \in Threads :
        ( /\ WellFormedWrite(cmd[t])
          /\ ChannelOf(cmd[t]) \in 0..4
          /\ ValueOf(cmd[t]) \notin 0..4095 )
        => /\ HandlerCalls(t) = <<>>
           /\ Returned(t) => result[t] = <<FALSE>>

(***************************************************************************)
(* C12.  A well-formed two-argument DAC write routes by channel.  Channel  *)
(* 0..3 with a value that, narrowed to 16 bits, is at most 0xFFF: the      *)
(* handler sends exactly one SPI frame for that channel, makes no internal *)
(* write and returns success; with a larger narrowed value it makes no     *)
(* hardware call and returns failure.  Channel 4: exactly one              *)
(* dacPutChannelX carrying the value, and success.  Any other channel:     *)
(* the line E:invalid channel, no hardware call, failure.                  *)
(***************************************************************************)
RoutedElsewhere(t) ==
    LET c == cmd[t]
    IN  /\ ChannelOf(c) = 4 =>
              /\ HandlerCalls(t) = << <<"dacPutChannelX", 0, ValueOf(c)>> >>
              /\ result[t] = <<TRUE>>
        /\ ChannelOf(c) \notin 0..4 =>
              /\ ErrorLine(t, "invalid channel")
              /\ HandlerCalls(t) = <<>>
              /\ result[t] = <<FALSE>>

C12_RoutesByChannel ==
    \A t \in Threads :
        (Returned(t) /\ WellFormedWrite(cmd[t])) =>
            LET c == cmd[t]
                narrowed == ValueOf(c) % 65536
            IN  /\ RoutedElsewhere(t)
                /\ (ChannelOf(c) \in 0..3 /\ narrowed <= 4095) =>
                      /\ HandlerCalls(t) = FrameOf(ChannelOf(c), narrowed)
                      /\ result[t] = <<TRUE>>
                /\ (ChannelOf(c) \in 0..3 /\ narrowed > 4095) =>
                      /\ HandlerCalls(t) = <<>>
                      /\ result[t] = <<FALSE>>

\* The claim as stated: every channel 0..3 write sends one frame.
C12_AlwaysOneFrame ==
    \A t \in Threads :
        (WellFormedWrite(cmd[t]) /\ Returned(t)) =>
            /\ RoutedElsewhere(t)
            /\ ChannelOf(cmd[t]) \in 0..3 =>
                  /\ Len(HandlerCalls(t)) = 3
                  /\ HandlerCalls(t)[1] = <<"spiSelect">>
                  /\ HandlerCalls(t)[2][1] = "spiSend"
                  /\ HandlerCalls(t)[2][2] \div 64 = ChannelOf(cmd[t])
                  /\ HandlerCalls(t)[3] = <<"spiUnselect">>

\* Channel 1 has been sent its frame by a completed write.
C12_Witness ==
    \E t \in Threads :
        /\ WellFormedWrite(cmd[t]) /\ AtEnd(t)
        /\ ChannelOf(cmd[t]) = 1
        /\ ValueOf(cmd[t]) = 100
        /\ HandlerCalls(t) = FrameOf(1, 100)
        /\ result[t] = <<TRUE>>

(***************************************************************************)
(* Reading one emission call.                                              *)
(***************************************************************************)
Emitting(t) == cmd[t].mod = "emit" /\ ~NullArgCall(cmd[t])

CountAtom(text, a) == Cardinality({ i \in DOMAIN text : text[i] = a })

TypeTags == {"#:", "W:", "E:", "?:", "B:", "S:", "SA:", "F:", "S8:", "U8:", "S16:", "U16:",
             "S32:", "U32:", "H8:", "H16:", "H32:"}

(***************************************************************************)
(* C13.  A completed typed emission has put exactly one record on the      *)
(* channel: its text ends in CRLF and holds no other carriage return or    *)
(* line feed.                                                              *)
(***************************************************************************)
C13_OneCRLFPerRecord ==
    \A t \in Threads :
        (Emitting(t) /\ AtEnd(t)) =>
            /\ EndsWithCRLF(TextOf(t))
            /\ CountAtom(TextOf(t), "\r") = 1
            /\ CountAtom(TextOf(t), "\n") = 1

(***************************************************************************)
(* C14.  Every complete line a dispatching thread has written, other than  *)
(* its BEGIN: and END lines, starts with one of the protocol's type tags.  *)
(***************************************************************************)
C14_HandlerLinesTagged ==
    \A t \in Threads :
        Dispatching(t) =>
            LET L == LinesOf(t).lines
            IN  \A k \in 1..Len(L) :
                    (L[k] # L_BEGIN /\ ~IsEndLine(L[k])) =>
                        (L[k] # <<>> /\ Head(L[k]) \in TypeTags)

(***************************************************************************)
(* C15.  In debug, info, warning, error and string the terminator is       *)
(* decided on the template alone: a completed call has written its prefix, *)
(* its rendered text and then CRLF exactly when the template is empty or   *)
(* its last character is neither a line feed nor a carriage return,        *)
(* whatever the arguments render to.                                       *)
(***************************************************************************)
FormatCall(t) == Emitting(t) /\ cmd[t].call.fn \in FormatFns

TemplateAsksCRLF(fmt) == fmt = <<>> \/ fmt[Len(fmt)] \notin {"\n", "\r"}

WritesOf(t) == SelectSeq(chan, LAMBDA ch : IsBy(t, ch))

C15_TerminatorFromTemplate ==
    \A t \in Threads :
        (FormatCall(t) /\ AtEnd(t)) =>
            LET w == WritesOf(t)
            IN  /\ Len(w) \in {2, 3}
                /\ (Len(w) = 3) <=> TemplateAsksCRLF(cmd[t].call.fmt)
                /\ Len(w) = 3 => w[3].text = CRLF

\* A template without terminator whose argument renders to text ending in
\* CRLF: the call has appended CRLF all the same.
C15_Witness ==
    \E t \in Threads :
        /\ FormatCall(t) /\ AtEnd(t)
        /\ cmd[t].call.fmt = <<"%s">>
        /\ cmd[t].call.args = << <<"a", "\r", "\n">> >>
        /\ Len(WritesOf(t)) = 3
        /\ EndsWithCRLF(WritesOf(t)[2].text)

(***************************************************************************)
(* Reading an array emission: what the line should be.                     *)
(***************************************************************************)
\* The unsigned decimal numeral of a 32-bit word, by long division by ten.
RECURSIVE UDec(_)
UDec(w) ==
    LET q1 == w.hi \div 10
        r1 == w.hi % 10
        q2 == (r1 * 65536 + w.lo) \div 10
        r2 == (r1 * 65536 + w.lo) % 10
    IN  IF q1 = 0 /\ q2 = 0 THEN <<DigitChars[r2 + 1]>>
        ELSE UDec(Word(q1, q2)) \o <<DigitChars[r2 + 1]>>

RECURSIVE JoinComma(_)
JoinComma(elems) ==
    IF elems = <<>> THEN <<>>
    ELSE IF Len(elems) = 1 THEN elems[1]
    ELSE elems[1] \o <<",">> \o JoinComma(Tail(elems))

\* The first count elements the call was given.
GivenElems(c) == SubSeq(c.data, 1, c.count)

(***************************************************************************)
(* C16.  A completed unsigned array emission (uint8, uint16, uint32) has   *)
(* written its tag U8:, U16: or U32:, the name, and every element as its   *)
(* unsigned decimal numeral, without sign.                                 *)
(***************************************************************************)
UnsignedTag(fn) ==
    CASE fn = "uint8" -> "U8:" [] fn = "uint16" -> "U16:" [] fn = "uint32" -> "U32:"

AsWord(fn, v) == IF fn = "uint32" THEN v ELSE Word(0, v)

C16_UnsignedDecimal ==
    \A t \in Threads :
        (Emitting(t) /\ AtEnd(t) /\ cmd[t].call.fn \in {"uint8", "uint16", "uint32"}) =>
            LET c == cmd[t].call
                e == GivenElems(c)
            IN  /\ CountAtom(TextOf(t), "-") = 0
                /\ TextOf(t) = <<UnsignedTag(c.fn)>> \o c.name \o <<":">>
                                \o JoinComma([i \in 1..Len(e) |-> UDec(AsWord(c.fn, e[i]))])
                                \o CRLF

(***************************************************************************)
(* C17.  A completed array emission with count elements has written the    *)
(* tag and name, the first count elements in input order with one comma    *)
(* between neighbours (max(count-1, 0) commas, none leading or trailing),  *)
(* then CRLF; with count 0 just the tag, the name and CRLF.  The counting  *)
(* loop and the count-down loop place the commas alike.                    *)
(***************************************************************************)
ArrayFns == IntArrayFns \cup {"string_array", "uint32", "hex_uint32"}

ArrayTag(fn) ==
    CASE fn = "string_array" -> "SA:"
      [] fn = "double"     -> "F:"
      [] fn = "int8"       -> "S8:"
      [] fn = "uint8"      -> "U8:"
      [] fn = "int16"      -> "S16:"
      [] fn = "uint16"     -> "U16:"
      [] fn = "int32"      -> "S32:"
      [] fn = "uint32"     -> "U32:"
      [] fn = "hex_uint8"  -> "H8:"
      [] fn = "hex_uint16" -> "H16:"
      [] fn = "hex_uint32" -> "H32:"

\* The conversion each emitter hands to chprintf for one element.
ConvOf(fn) ==
    CASE fn = "double" -> "%f"
      [] fn \in {"int8", "int16", "int32"} -> "%d"
      [] fn \in {"uint8", "uint16"} -> "%u"
      [] fn = "uint32"     -> "%d of uint32_t"
      [] fn = "hex_uint8"  -> "%02X"
      [] fn = "hex_uint16" -> "%04X"
      [] fn = "hex_uint32" -> "%08X"

ElemTexts(c) ==
    IF c.fn = "string_array" THEN SubSeq(c.strs, 1, c.count)
    ELSE [i \in 1..c.count |-> Fmt(ConvOf(c.fn), c.data[i])]

ArrayCall(t) == Emitting(t) /\ cmd[t].call.fn \in ArrayFns

C17_CommaPlacement ==
    \A t \in Threads :
        (ArrayCall(t) /\ AtEnd(t)) =>
            LET c == cmd[t].call
                w == WritesOf(t)
            IN  /\ TextOf(t) = <<ArrayTag(c.fn)>> \o c.name \o <<":">>
                                \o JoinComma(ElemTexts(c)) \o CRLF
                /\ CountAtom(TextOf(t), ",") = (IF c.count = 0 THEN 0 ELSE c.count - 1)
                /\ Len(w) = 2 + c.count + (IF c.count = 0 THEN 0 ELSE c.count - 1)
                /\ \A i \in 1..c.count : w[2 * i].text = ElemTexts(c)[i]
                /\ \A i \in 1..(c.count - 1) : w[2 * i + 1].text = <<",">>
                /\ w[Len(w)].text = CRLF

\* A count-down emitter has written three elements and two commas.
C17_Witness ==
    \E t \in Threads :
        /\ ArrayCall(t) /\ AtEnd(t)
        /\ cmd[t].call.fn = "hex_uint8"
        /\ cmd[t].call.count = 3
        /\ CountAtom(TextOf(t), ",") = 2

(***************************************************************************)
(* C18.  Among the threads dispatching DAC commands at most one ever runs  *)
(* the body of fetch_dac_init, and once dac_init_flag is set no thread is  *)
(* still inside that body.                                                 *)
(***************************************************************************)
RanInit(t) == \E i \in 1..Len(hwlog[t]) : hwlog[t][i].call = <<"dacStart">>

C18_InitAtMostOnce ==
    /\ Cardinality({ t \in Threads : RanInit(t) }) <= 1
    /\ \A t \in Threads : dac_init_flag => ~(InInit(t) /\ HeadOp(t) = "hw")

(***************************************************************************)
(* Reading an argument string as an integer literal of base 0: an optional *)
(* sign, then decimal digits not led by 0, or 0 and octal digits, or 0x    *)
(* and hexadecimal digits.                                                 *)
(***************************************************************************)
AllIn(s, set) == \A i \in 1..Len(s) : s[i] \in set

Unsigned(s) == IF s # <<>> /\ s[1] \in {"-", "+"} THEN Tail(s) ELSE s

IsLiteral(s) ==
    LET u == Unsigned(s)
        dec == {"0", "1", "2", "3", "4", "5", "6", "7", "8", "9"}
        oct == dec \ {"8", "9"}
        hex == dec \cup {"a", "b", "c", "d", "e", "f", "A", "B", "C", "D", "E", "F"}
    IN  /\ u # <<>>
        /\ \/ u[1] # "0" /\ AllIn(u, dec)
           \/ u[1] = "0" /\ AllIn(u, oct)
           \/ /\ Len(u) >= 3
              /\ u[1] = "0"
              /\ u[2] \in {"x", "X"}
              /\ AllIn(SubSeq(u, 3, Len(u)), hex)

\* The string has characters that are not part of a literal.
TrailingJunk(s) == s # <<>> /\ ~IsLiteral(s)

TwoArgWrite(c) == c.mod = "dac" /\ DacSelected(c, S_WRITE) /\ Len(c.data_list) = 2

\* The handler's only output is the one error line with the given text.
OnlyErrorLine(t, text) ==
    /\ ErrorLine(t, text)
    /\ \A i \in HandlerChunks(t) : CallText(t, chan[i].call) = <<"E:", text>> \o CRLF

(***************************************************************************)
(* C19.  A two-argument DAC write whose channel string has trailing        *)
(* non-numeric characters writes only the line E:invalid channel (no line  *)
(* about the value), its handler makes no hardware call, and it returns    *)
(* failure.  With a channel string free of such characters and a value     *)
(* string that has them, it writes only the line E:invalid value, its      *)
(* handler makes no hardware call, and it returns failure.                 *)
(***************************************************************************)
C19_MalformedRejected ==
    \A t \in Threads :
        TwoArgWrite(cmd[t]) =>
            LET channel == cmd[t].data_list[1]
                value   == cmd[t].data_list[2]
            IN  /\ (TrailingJunk(channel) \/ TrailingJunk(value)) =>
                      /\ HandlerCalls(t) = <<>>
                      /\ Returned(t) => result[t] = <<FALSE>>
                /\ (TrailingJunk(channel) /\ Returned(t)) =>
                      OnlyErrorLine(t, "invalid channel")
                /\ (~TrailingJunk(channel) /\ TrailingJunk(value) /\ Returned(t)) =>
                      OnlyErrorLine(t, "invalid value")

\* A completed write of 4x to channel 1 has been refused for its value.
C19_Witness ==
    \E t \in Threads :
        /\ TwoArgWrite(cmd[t]) /\ AtEnd(t)
        /\ cmd[t].data_list = <<S_A_1, S_A_4X>>
        /\ OnlyErrorLine(t, "invalid value")
        /\ HandlerCalls(t) = <<>>
        /\ result[t] = <<FALSE>>

(***************************************************************************)
(* The handler and the pad mode a token names by full-length equality.     *)
(***************************************************************************)
ActionNames == <<S_GET, S_SET, S_CLEAR, S_CONFIG>>

HandlerPadOps == <<"palReadPad", "palSetPad", "palClearPad", "palSetPadMode">>

DirectionOf(tok) ==
    CASE EqNoCase(tok, S_INPUT)  -> "PAL_STM32_MODE_INPUT"
      [] EqNoCase(tok, S_OUTPUT) -> "PAL_STM32_MODE_OUTPUT"
      [] OTHER                   -> "none"

SenseOf(tok) ==
    CASE EqNoCase(tok, S_PULLUP)   -> "PAL_STM32_PUDR_PULLUP"
      [] EqNoCase(tok, S_PULLDOWN) -> "PAL_STM32_PUDR_PULLDOWN"
      [] EqNoCase(tok, S_FLOATING) -> "PAL_STM32_PUDR_FLOATING"
      [] EqNoCase(tok, S_ANALOG)   -> "PAL_STM32_MODE_ANALOG"
      [] OTHER                     -> "none"

(***************************************************************************)
(* C20.  A gpio dispatch runs at most one handler, and only the one whose  *)
(* name equals the action token over its full length, letter case aside:   *)
(* a pad operation of get, set, clear or config happens only under such a  *)
(* token.  A token that equals none of the four names (a longer one such   *)
(* as gets, or an abbreviation) runs no handler: no pad operation, no      *)
(* output, failure.  The mode set by config is the one its direction and   *)
(* sense tokens name by the same full-length equality.                     *)
(***************************************************************************)
C20_ExactSelection ==
    \A t \in Threads :
        cmd[t].mod = "gpio" =>
            LET c == cmd[t]
            IN  /\ Len(hwlog[t]) <= 1
                /\ \A i \in 1..Len(hwlog[t]) :
                      LET call == hwlog[t][i].call
                      IN  /\ \E k \in 1..4 :
                                /\ EqNoCase(c.cmd_list.ACTIONTOK, ActionNames[k])
                                /\ call[1] = HandlerPadOps[k]
                          /\ call[1] = "palSetPadMode" =>
                                /\ DirectionOf(c.cmd_list.DIRECTION) # "none"
                                /\ SenseOf(c.cmd_list.SENSE) # "none"
                                /\ call[4] = DirectionOf(c.cmd_list.DIRECTION)
                                /\ call[5] = SenseOf(c.cmd_list.SENSE)
                /\ ~OneOf(c.cmd_list.ACTIONTOK, ActionNames) =>
                      /\ hwlog[t] = <<>>
                      /\ HandlerChunks(t) = {}
                      /\ Returned(t) => result[t] = <<FALSE>>

\* The token GET has selected gpio_get, which has read the pad.
C20_Witness ==
    \E t \in Threads :
        /\ cmd[t].mod = "gpio" /\ AtEnd(t)
        /\ cmd[t].cmd_list.ACTIONTOK = S_GET_UC
        /\ Len(hwlog[t]) = 1
        /\ hwlog[t][1].call[1] = "palReadPad"
        /\ result[t] = <<TRUE>>

(***************************************************************************)
(* The string converters called directly: one thread converts strings,     *)
(* each of them twice.                                                     *)
(***************************************************************************)
MatchCmd(fn, str) ==
    [mod |-> "match", cmd_list |-> NoPath, data_list |-> <<>>,
     call |-> [NoCall EXCEPT !.fn = fn, !.chp = CHP, !.name = str]]

toupper(c) ==
    IF \E i \in 1..Len(LowerChars) : LowerChars[i] = c
    THEN UpperChars[CHOOSE i \in 1..Len(LowerChars) : LowerChars[i] = c]
    ELSE c

Upper(s) == [i \in 1..Len(s) |-> toupper(s[i])]

MapNames == { PinName(i) : i \in 0..15 } \cup { PortName(i) : i \in 1..9 }

\* The map names, in upper and mixed case, cut short, and extended by one
\* character or beyond the compared length.
MatchInputs ==
    MapNames
    \cup { Upper(n) : n \in MapNames }
    \cup { <<toupper(n[1])>> \o Tail(n) : n \in MapNames }
    \cup { SubSeq(n, 1, k) : n \in MapNames, k \in 0..4 }
    \cup { n \o <<ch>> : n \in MapNames, ch \in {"0", "1", "6", "a", "x", " "} }
    \cup { n \o <<"0", "0", "0", "0", "0">> : n \in MapNames }

MatchCmds ==
    { MatchCmd(fn, str) : fn \in {"string_to_pinnum", "string_to_gpioport"},
                          str \in MatchInputs }

\* A converter returns to its caller, which keeps the value.
CallReturn(t) ==
    /\ ~Idle(t)
    /\ Head(todo[t]).op = "result"
    /\ result' = [result EXCEPT ![t] = @ \o Head(todo[t]).arg]
    /\ todo' = [todo EXCEPT ![t] = Tail(@)]
    /\ UNCHANGED <<mshell_io_sem, inCS, dac_init_flag, chan, cmd, ncmd, ncall, rv, hwlog,
                   debug_build>>

MatchNext ==
    \/ Dispatch(ShellThread, MatchCmds, MaxCmds)
    \/ CallReturn(ShellThread)
    \/ Done(ShellThread)

MatchSpec == Init /\ [][MatchNext]_vars

Converting(t, fn) == cmd[t].mod = "match" /\ cmd[t].call.fn = fn

CallsNamed(t, name) == { i \in 1..Len(hwlog[t]) : hwlog[t][i].call[1] = name }

\* Thread t has selected the DAC and not yet unselected it.
InSpiTransaction(t) ==
    Cardinality(CallsNamed(t, "spiSelect")) > Cardinality(CallsNamed(t, "spiUnselect"))

(***************************************************************************)
(* C22.  At most one thread at a time is between the spiSelect and the     *)
(* spiUnselect of an external DAC write: the bus is never selected by one  *)
(* thread while another thread's frame is in progress.                     *)
(***************************************************************************)
C22_OneSpiTransaction ==
    Cardinality({ t \in Threads : InSpiTransaction(t) }) <= 1

=============================================================================
